---- MODULE Spec2Model ----
(***************************************************************************)
(* Verification model of the market-data ingestion pipeline:               *)
(*   - utils/key_rate_limiter.py   KeyRateLimiter (multi-key limiter)      *)
(*   - db_manager.py               DatabaseManager (UPSERT layer)          *)
(*   - scripts/update_*.py         per-security / per-date task workers    *)
(*                                                                         *)
(* Time in the limiter is counted in ticks of the 0.01 s buffer that       *)
(* acquire_key adds to every sleep.  A timestamp ts kept in a history is   *)
(* represented by its age now - ts, saturated at per_seconds + 1: the code *)
(* only ever compares now - ts with per_seconds.                           *)
(***************************************************************************)
EXTENDS Integers, Sequences, FiniteSets, TLC

\* ------------------------------------------------------------------ bounds
MaxKeys == 2
MaxRate == 2
MaxWindow == 2
MaxThreads == 2
MaxLog == 5
MaxSec == 2
MaxDay == 4
MaxOps == 2
MaxRuns == 2
MaxWorkers == 2

\* ------------------------------------------------------- program constants
Epsilon == 1

VARIABLES
    nkeys,          \* len(self.keys); key i is self.keys[i-1]
    rate_limit,     \* self.rate_limit
    per_seconds,    \* self.per_seconds, in ticks
    history,        \* self.history: key -> deque(maxlen=rate_limit) of ages
    lock,           \* self.lock: 0 = free, otherwise the holding thread
    pc,             \* position of each caller in acquire_key
    sleep_left,     \* remaining time of a caller's time.sleep
    granted,        \* key returned by the caller's last acquire_key (0: none)
    recent,         \* observer: ages of the last rate_limit+1 admissions per key
    admLog,         \* observer: the first MaxLog admissions, in order
    clock,          \* observer: ticks since construction, saturating
    securities,     \* table securities: id -> row
    prices,         \* table daily_prices: <<security_id, date>> -> row
    dividends,      \* table stock_dividends: set of rows
    splits,         \* table stock_splits: set of rows
    today,          \* date.today() / now(), counted in days
    ops,            \* number of store calls and task runs made so far
    last,           \* observer: the most recent call, its inputs and outcome
    vendor,         \* what the external vendors currently serve
    run             \* the command in progress: its work list and outcome

limiterVars == <<nkeys, rate_limit, per_seconds, history, lock, pc, sleep_left,
                 granted, recent, admLog, clock>>

storeVars == <<securities, prices, dividends, splits, today, ops, last, vendor>>

vars == <<limiterVars, storeVars, run>>

\* no command has been started
NoRun ==
    [cmd |-> "none", flag |-> FALSE, phase |-> "idle", queue |-> <<>>,
     inflight |-> {}, results |-> <<>>, exit |-> 0, stop |-> FALSE,
     step |-> 0, skip |-> {}, waiters |-> {}, acquired |-> 0,
     requested |-> 0, submitted |-> <<>>]

Threads == 1..MaxThreads
Keys == 1..nkeys
ClockCap == MaxWindow + 1

Min2(a, b) == IF a < b THEN a ELSE b
Max2(a, b) == IF a > b THEN a ELSE b

\* ------------------------------------------------------------ rate limiter

\* collections.deque(maxlen=n).append(x): the oldest entry falls out when full
DequeAppendUnbounded(q, x, n) == Append(q, x)
DequeAppend(q, x, n) ==
    IF Len(q) < n THEN Append(q, x) ELSE Append(Tail(q), x)

\* conditions 1 and 2 of the scan: the key can be handed out right now
ExpiredNonStrict(age, w) == age >= w
Expired(age, w) == age > w

ImmediatelyAvailableOffByOne(h, k) ==
    \/ Len(h[k]) <= rate_limit
    \/ Expired(h[k][1], per_seconds)
ImmediatelyAvailable(h, k) ==
    \/ Len(h[k]) < rate_limit
    \/ Expired(h[k][1], per_seconds)

\* for key in self.keys: ... break  -- the first available key, 0 for None
RECURSIVE ScanFrom(_, _)
ScanFrom(h, k) ==
    IF k > nkeys THEN 0
    ELSE IF ImmediatelyAvailable(h, k) THEN k
    ELSE ScanFrom(h, k + 1)

BestKey(h) == ScanFrom(h, 1)

\* min over keys of (oldest_request_time + per_seconds) - now
RECURSIVE MinWaitFrom(_, _, _)
MinWaitFrom(h, k, m) ==
    IF k > nkeys THEN m
    ELSE LET wait_time == per_seconds - h[k][1]
         IN MinWaitFrom(h, k + 1, IF wait_time < m THEN wait_time ELSE m)

Infinity == MaxWindow + MaxWindow + 2
MinWaitTime(h) == MinWaitFrom(h, 1, Infinity)

WaitDurationNoBuffer(h) == Max2(0, MinWaitTime(h))
WaitDuration(h) == Max2(0, MinWaitTime(h)) + Epsilon

AgeCap == per_seconds + 1
Older(q) == [i \in 1..Len(q) |-> Min2(q[i] + 1, AgeCap)]

LimiterStart ==
    /\ nkeys \in 1..MaxKeys
    /\ rate_limit \in 1..MaxRate
    /\ per_seconds = MaxWindow
    /\ history = [k \in 1..nkeys |-> <<>>]
    /\ lock = 0
    /\ pc = [t \in Threads |-> "idle"]
    /\ sleep_left = [t \in Threads |-> 0]
    /\ granted = [t \in Threads |-> 0]
    /\ recent = [k \in 1..nkeys |-> <<>>]
    /\ admLog = <<>>
    /\ clock = 0

\* a caller invokes acquire_key
Call(t) ==
    /\ pc[t] = "idle"
    /\ pc' = [pc EXCEPT ![t] = "want"]
    /\ granted' = [granted EXCEPT ![t] = 0]
    /\ UNCHANGED <<nkeys, rate_limit, per_seconds, history, lock, sleep_left,
                   recent, admLog, clock>>
    /\ UNCHANGED <<storeVars, run>>

\* with self.lock:  now = time.monotonic()
Enter(t) ==
    /\ pc[t] = "want"
    /\ lock = 0
    /\ lock' = t
    /\ pc' = [pc EXCEPT ![t] = "scan"]
    /\ UNCHANGED <<nkeys, rate_limit, per_seconds, history, sleep_left,
                   granted, recent, admLog, clock>>
    /\ UNCHANGED <<storeVars, run>>

\* if best_key: self.history[best_key].append(now); return best_key
Admit(t) ==
    /\ pc[t] = "scan"
    /\ lock = t
    /\ BestKey(history) # 0
    /\ LET k == BestKey(history) IN
         /\ history' = [history EXCEPT ![k] = DequeAppend(@, 0, rate_limit)]
         /\ recent' = [recent EXCEPT ![k] = DequeAppend(@, 0, rate_limit + 1)]
         /\ admLog' = IF Len(admLog) < MaxLog
                      THEN Append(admLog, [key |-> k, at |-> clock])
                      ELSE admLog
         /\ granted' = [granted EXCEPT ![t] = k]
    /\ lock' = 0
    /\ pc' = [pc EXCEPT ![t] = "idle"]
    /\ UNCHANGED <<nkeys, rate_limit, per_seconds, sleep_left, clock>>
    /\ UNCHANGED <<storeVars, run>>

\* no key available: compute min_wait_time, leave the lock, time.sleep(...)
Wait(t) ==
    /\ pc[t] = "scan"
    /\ lock = t
    /\ BestKey(history) = 0
    /\ sleep_left' = [sleep_left EXCEPT ![t] = WaitDuration(history)]
    /\ lock' = 0
    /\ pc' = [pc EXCEPT ![t] = "sleep"]
    /\ UNCHANGED <<nkeys, rate_limit, per_seconds, history, granted, recent,
                   admLog, clock>>
    /\ UNCHANGED <<storeVars, run>>

\* time.sleep returns; back to the top of  while True
Wake(t) ==
    /\ pc[t] = "sleep"
    /\ sleep_left[t] = 0
    /\ pc' = [pc EXCEPT ![t] = "want"]
    /\ UNCHANGED <<nkeys, rate_limit, per_seconds, history, lock, sleep_left,
                   granted, recent, admLog, clock>>
    /\ UNCHANGED <<storeVars, run>>

\* one tick of time.monotonic(); the critical section takes no time
Tick ==
    /\ lock = 0
    /\ history' = [k \in 1..nkeys |-> Older(history[k])]
    /\ recent' = [k \in 1..nkeys |-> Older(recent[k])]
    /\ sleep_left' = [t \in Threads |-> Max2(0, sleep_left[t] - 1)]
    /\ clock' = Min2(clock + 1, ClockCap)
    /\ UNCHANGED <<nkeys, rate_limit, per_seconds, lock, pc, granted, admLog>>
    /\ UNCHANGED <<storeVars, run>>

LimiterNext ==
    \/ \E t \in Threads : Call(t)
    \/ \E t \in Threads : Enter(t)
    \/ \E t \in Threads : Admit(t)
    \/ \E t \in Threads : Wait(t)
    \/ \E t \in Threads : Wake(t)
    \/ Tick


\* -------------------------------------------------------- relational store
\* Column values are small integers; NULL is 0.  Timestamps and dates are day
\* numbers.  The columns kept are one representative of each kind the code
\* treats differently: name and cik stand for the plain nullable columns.
NULL == 0
ActiveTrue == 1
ActiveFalse == 2

SecIds == 1..MaxSec
Days == 1..MaxDay

SecurityColumns ==
    {"id", "symbol", "em_code", "name", "cik", "currency", "market",
     "is_active", "info_last_updated_at", "price_data_latest_date",
     "full_data_last_updated_at", "actions_last_updated_at",
     "full_refresh_interval"}

\* full_refresh_interval default: py_random.randint(25, 40)
IntervalLow == 25
IntervalHigh == 40
IntervalDraws == {IntervalLow, IntervalHigh}

\* value an INSERT gives a column the statement does not mention
SecurityDefault(c, draw, now) ==
    CASE c = "is_active" -> ActiveTrue
      [] c = "full_refresh_interval" -> draw
      [] c = "info_last_updated_at" -> now
      [] OTHER -> NULL

\* the row proposed for insertion, which ON CONFLICT exposes as EXCLUDED
SecurityProposedRow(rec, draw, now) ==
    [c \in SecurityColumns |->
        IF c \in DOMAIN rec THEN rec[c] ELSE SecurityDefault(c, draw, now)]

\* update_columns: every column of stmt.excluded except id, symbol, em_code
SecurityUpdateColumnsWithEmCode == SecurityColumns \ {"id", "symbol"}
SecurityUpdateColumns == SecurityColumns \ {"id", "symbol", "em_code"}

\* UNIQUE(symbol), UNIQUE(em_code) against the other rows
SecurityUniqueViolation(tbl, row) ==
    \E i \in DOMAIN tbl :
        /\ i # row.id
        /\ \/ tbl[i].symbol = row.symbol
           \/ (row.em_code # NULL /\ tbl[i].em_code = row.em_code)

\* DatabaseManager.upsert_security_info: [ok, tbl] after the call
UpsertSecurityInfo(tbl, rec, draw, now) ==
    IF "id" \notin DOMAIN rec
    THEN [ok |-> FALSE, tbl |-> tbl]
    ELSE LET row == SecurityProposedRow(rec, draw, now) IN
         IF row.symbol = NULL
         THEN [ok |-> FALSE, tbl |-> tbl]
         ELSE IF rec.id \in DOMAIN tbl
         THEN [ok |-> TRUE,
               tbl |-> [tbl EXCEPT ![rec.id] =
                   [c \in SecurityColumns |->
                       IF c = "info_last_updated_at" THEN now
                       ELSE IF c \in SecurityUpdateColumns THEN row[c]
                       ELSE @[c]]]]
         ELSE IF SecurityUniqueViolation(tbl, row)
         THEN [ok |-> FALSE, tbl |-> tbl]
         ELSE [ok |-> TRUE,
               tbl |-> [i \in DOMAIN tbl \cup {rec.id} |->
                           IF i = rec.id THEN row ELSE tbl[i]]]

StampFields ==
    {"info_last_updated_at", "price_data_latest_date",
     "full_data_last_updated_at", "actions_last_updated_at"}

\* update_security_timestamp without its allow-list
UpdateSecurityTimestampAnyField(tbl, id, field_name, now) ==
    [ok |-> TRUE,
     tbl |-> [i \in DOMAIN tbl |->
                IF i = id THEN [tbl[i] EXCEPT ![field_name] = now]
                ELSE tbl[i]]]

\* DatabaseManager.update_security_timestamp: [ok, tbl] after the call
UpdateSecurityTimestamp(tbl, id, field_name, now) ==
    IF field_name \notin StampFields
    THEN [ok |-> FALSE, tbl |-> tbl]
    ELSE [ok |-> TRUE,
          tbl |-> [i \in DOMAIN tbl |->
                     IF i = id THEN [tbl[i] EXCEPT ![field_name] = now]
                     ELSE tbl[i]]]

\* update_security_price_latest_date writing the full stamp on every call
UpdatePriceLatestDateAlwaysFull(tbl, id, latest_date, is_full_run, now) ==
    [i \in DOMAIN tbl |->
        IF i # id THEN tbl[i]
        ELSE [tbl[i] EXCEPT !["price_data_latest_date"] = latest_date,
                            !["full_data_last_updated_at"] = now]]

\* DatabaseManager.update_security_price_latest_date
UpdateSecurityPriceLatestDate(tbl, id, latest_date, is_full_run, now) ==
    [i \in DOMAIN tbl |->
        IF i # id THEN tbl[i]
        ELSE IF is_full_run
        THEN [tbl[i] EXCEPT !["price_data_latest_date"] = latest_date,
                            !["full_data_last_updated_at"] = now]
        ELSE [tbl[i] EXCEPT !["price_data_latest_date"] = latest_date]]

FirstDay == 2

SeedSecurity(i) ==
    [id |-> i, symbol |-> i, em_code |-> i, name |-> 1, cik |-> 1,
     currency |-> IF i = 1 THEN 2 ELSE NULL, market |-> 1,
     is_active |-> ActiveTrue,
     info_last_updated_at |-> 1, price_data_latest_date |-> NULL,
     full_data_last_updated_at |-> NULL, actions_last_updated_at |-> NULL,
     full_refresh_interval |-> IntervalLow]

NoCall == [op |-> "none"]

\* observer value after a step that is not a task run
Outside(what) ==
    [op |-> what, id |-> 0, flag |-> FALSE, status |-> "", again |-> FALSE]

\* vendor state: em_horizon - the daily-price vendor has rows for the dates
\* 1..em_horizon; em_tag / pg_tag - the values the vendors serve; pg_down -
\* the authoritative vendor is unreachable; pg_tickers - tickers in the
\* grouped-daily payload; divs, splits - the corporate actions the
\* authoritative vendor lists for every symbol
NoVendor ==
    [em_horizon |-> 0, em_tag |-> 1, pg_down |-> FALSE, pg_tickers |-> {},
     pg_tag |-> 1, divs |-> <<>>, splits |-> <<>>]

StoreIdle ==
    /\ securities = [i \in SecIds |-> SeedSecurity(i)]
    /\ prices = <<>>
    /\ dividends = {}
    /\ splits = {}
    /\ today = FirstDay
    /\ ops = 0
    /\ last = NoCall
    /\ vendor = NoVendor

LimiterIdle ==
    /\ run = NoRun
    /\ nkeys = 1
    /\ rate_limit = 1
    /\ per_seconds = MaxWindow
    /\ history = [k \in 1..1 |-> <<>>]
    /\ lock = 0
    /\ pc = [t \in Threads |-> "idle"]
    /\ sleep_left = [t \in Threads |-> 0]
    /\ granted = [t \in Threads |-> 0]
    /\ recent = [k \in 1..1 |-> <<>>]
    /\ admLog = <<>>
    /\ clock = 0

\* the payloads tried on upsert_security_info
SecurityFieldSets ==
    {{"name"}, {"symbol", "name"}, {"symbol", "cik"},
     {"symbol", "em_code", "is_active"}}

SecurityValues(c) ==
    CASE c = "id" -> {1, MaxSec + 1}
      [] c = "symbol" -> {1, MaxSec + 1}
      [] c = "em_code" -> {MaxSec + 1}
      [] c = "name" -> {NULL, 2}
      [] c = "cik" -> {2}
      [] c = "is_active" -> {ActiveFalse}
      [] OTHER -> {NULL}

SecurityPayloads ==
    UNION {{rec \in [fs -> 0..(MaxSec + 1)] :
                \A c \in fs : rec[c] \in SecurityValues(c)} :
           fs \in {f \cup {"id"} : f \in SecurityFieldSets} \cup {{"name"}}}

Budget == ops < MaxOps

\* a caller runs upsert_security_info(security_data)
SecUpsert(rec, draw) ==
    /\ Budget
    /\ LET r == UpsertSecurityInfo(securities, rec, draw, today) IN
         /\ securities' = r.tbl
         /\ last' = [op |-> "upsert_security_info", rec |-> rec,
                     ok |-> r.ok,
                     existed |-> ("id" \in DOMAIN rec
                                  /\ rec.id \in DOMAIN securities)]
    /\ ops' = ops + 1
    /\ UNCHANGED <<prices, dividends, splits, today, vendor>>
    /\ UNCHANGED <<limiterVars, run>>

\* a caller runs update_security_timestamp(security_id, field_name)
SecStamp(id, field_name) ==
    /\ Budget
    /\ LET r == UpdateSecurityTimestamp(securities, id, field_name, today) IN
         /\ securities' = r.tbl
         /\ last' = [op |-> "update_security_timestamp", id |-> id,
                     field |-> field_name, ok |-> r.ok]
    /\ ops' = ops + 1
    /\ UNCHANGED <<prices, dividends, splits, today, vendor>>
    /\ UNCHANGED <<limiterVars, run>>

\* a caller runs update_security_price_latest_date(id, latest_date, flag)
SecPriceLatest(id, latest_date, is_full_run) ==
    /\ Budget
    /\ securities' = UpdateSecurityPriceLatestDate(securities, id, latest_date,
                                                   is_full_run, today)
    /\ last' = [op |-> "update_security_price_latest_date", id |-> id,
                date |-> latest_date, full |-> is_full_run]
    /\ ops' = ops + 1
    /\ UNCHANGED <<prices, dividends, splits, today, vendor>>
    /\ UNCHANGED <<limiterVars, run>>

\* midnight passes
NextDay ==
    /\ today < MaxDay
    /\ today' = today + 1
    /\ last' = Outside("next_day")
    /\ UNCHANGED <<securities, prices, dividends, splits, ops, vendor>>
    /\ UNCHANGED <<limiterVars, run>>

SecurityStoreNext ==
    \/ \E rec \in SecurityPayloads, draw \in IntervalDraws :
          SecUpsert(rec, draw)
    \/ \E id \in SecIds, f \in StampFields \cup {"name"} : SecStamp(id, f)
    \/ \E id \in SecIds, d \in {1, MaxDay}, full \in BOOLEAN :
          SecPriceLatest(id, d, full)

SecurityStoreInit == LimiterIdle /\ StoreIdle

SecurityStoreSpec == SecurityStoreInit /\ [][SecurityStoreNext]_vars


\* --------------------------------------------- stock_dividends, stock_splits
\* frequency stands for the nullable columns outside the unique constraint
\* (declaration_date, record_date, pay_date, frequency).
DividendIndexElements == {"security_id", "ex_dividend_date", "cash_amount"}
SplitIndexElements == {"security_id", "execution_date"}

KeyOf(r, cols) == [c \in cols |-> r[c]]

\* NOT NULL columns and the foreign key of one proposed row
DividendRowValid(r, secs) ==
    /\ r.security_id \in DOMAIN secs
    /\ r.ex_dividend_date # NULL
    /\ r.cash_amount # NULL
    /\ r.currency # NULL

SplitRowValid(r, secs) ==
    /\ r.security_id \in DOMAIN secs
    /\ r.execution_date # NULL
    /\ r.split_to # NULL
    /\ r.split_from # NULL

\* ON CONFLICT (index_elements) DO NOTHING for one proposed row
OnConflictDoUpdate(tbl, r, cols) ==
    {x \in tbl : KeyOf(x, cols) # KeyOf(r, cols)} \cup {r}
OnConflictDoNothing(tbl, r, cols) ==
    IF \E x \in tbl : KeyOf(x, cols) = KeyOf(r, cols) THEN tbl ELSE tbl \cup {r}

RECURSIVE InsertIgnoring(_, _, _)
InsertIgnoring(tbl, batch, cols) ==
    IF batch = <<>> THEN tbl
    ELSE InsertIgnoring(OnConflictDoNothing(tbl, Head(batch), cols),
                        Tail(batch), cols)

\* for item in data: item['security_id'] = security_id
WithSecurityId(batch, security_id) ==
    [i \in 1..Len(batch) |->
        [c \in DOMAIN batch[i] \cup {"security_id"} |->
            IF c = "security_id" THEN security_id ELSE batch[i][c]]]

\* DatabaseManager._batch_upsert: one INSERT ... ON CONFLICT DO NOTHING
\* statement; any violated constraint aborts the whole statement
BatchUpsert(tbl, data_list, index_elements, valid) ==
    IF data_list = <<>> THEN [ok |-> TRUE, tbl |-> tbl]
    ELSE IF \E i \in 1..Len(data_list) : ~valid[i]
    THEN [ok |-> FALSE, tbl |-> tbl]
    ELSE [ok |-> TRUE, tbl |-> InsertIgnoring(tbl, data_list, index_elements)]

\* DatabaseManager.upsert_dividends
UpsertDividends(tbl, secs, security_id, dividends_data) ==
    LET data == WithSecurityId(dividends_data, security_id) IN
    BatchUpsert(tbl, data, DividendIndexElements,
                [i \in 1..Len(data) |-> DividendRowValid(data[i], secs)])

\* DatabaseManager.upsert_splits
UpsertSplits(tbl, secs, security_id, splits_data) ==
    LET data == WithSecurityId(splits_data, security_id) IN
    BatchUpsert(tbl, data, SplitIndexElements,
                [i \in 1..Len(data) |-> SplitRowValid(data[i], secs)])

DividendInputs ==
    {[ex_dividend_date |-> 1, cash_amount |-> a, currency |-> cu,
      frequency |-> NULL] : a \in {1, 2}, cu \in {NULL, 1, 2}}

SplitInputs ==
    {[execution_date |-> d, declaration_date |-> NULL, split_to |-> st,
      split_from |-> 1] : d \in {1, 2}, st \in {2, 3}}

BatchesOf(S) == {<<>>} \cup {<<a>> : a \in S} \cup {<<a, b>> : a, b \in S}

HasDuplicateKey(tbl, data, cols) ==
    \E i \in 1..Len(data) : \E x \in tbl : KeyOf(x, cols) = KeyOf(data[i], cols)

\* a caller runs upsert_dividends(security_id, dividends_data)
DivUpsert(security_id, batch) ==
    /\ Budget
    /\ LET r == UpsertDividends(dividends, securities, security_id, batch) IN
         /\ dividends' = r.tbl
         /\ last' = [op |-> "upsert_dividends", id |-> security_id,
                     batch |-> batch, ok |-> r.ok,
                     dup |-> HasDuplicateKey(dividends,
                                 WithSecurityId(batch, security_id),
                                 DividendIndexElements)]
    /\ ops' = ops + 1
    /\ UNCHANGED <<securities, prices, splits, today, vendor>>
    /\ UNCHANGED <<limiterVars, run>>

\* a caller runs upsert_splits(security_id, splits_data)
SplitUpsert(security_id, batch) ==
    /\ Budget
    /\ LET r == UpsertSplits(splits, securities, security_id, batch) IN
         /\ splits' = r.tbl
         /\ last' = [op |-> "upsert_splits", id |-> security_id,
                     batch |-> batch, ok |-> r.ok,
                     dup |-> HasDuplicateKey(splits,
                                 WithSecurityId(batch, security_id),
                                 SplitIndexElements)]
    /\ ops' = ops + 1
    /\ UNCHANGED <<securities, prices, dividends, today, vendor>>
    /\ UNCHANGED <<limiterVars, run>>

ActionStoreNext ==
    \/ \E id \in {1, MaxSec + 1}, batch \in BatchesOf(DividendInputs) :
          DivUpsert(id, batch)
    \/ \E id \in {1, MaxSec + 1}, batch \in BatchesOf(SplitInputs) :
          SplitUpsert(id, batch)

ActionStoreInit == LimiterIdle /\ StoreIdle

ActionStoreSpec == ActionStoreInit /\ [][ActionStoreNext]_vars


\* ------------------------------------------------------------- daily_prices
PriceColumns ==
    {"security_id", "date", "open", "high", "low", "close", "volume",
     "turnover", "vwap", "turnover_rate", "adj_factor"}

\* adj_factor server_default '1.0'
AdjFactorDefault == 1

DailyPriceDefault(c) == IF c = "adj_factor" THEN AdjFactorDefault ELSE NULL

\* the row proposed for insertion (EXCLUDED), built from the statement's columns
DailyPriceProposedRow(rec, cols) ==
    [c \in PriceColumns |-> IF c \in cols THEN rec[c] ELSE DailyPriceDefault(c)]

\* the columns upsert_daily_prices can put into set_
PriceUpsertNoVolume ==
    {"open", "high", "low", "close", "turnover", "vwap", "turnover_rate"}
PriceUpsertColumns ==
    {"open", "high", "low", "close", "volume", "turnover", "vwap",
     "turnover_rate"}

PriceKey(r) == <<r.security_id, r.date>>

\* a conflicting row replaced as a whole by the proposed row
UpsertPriceRowReplace(tbl, row, update_columns) ==
    [k \in DOMAIN tbl \cup {PriceKey(row)} |->
        IF k = PriceKey(row) THEN row ELSE tbl[k]]

\* one proposed row under ON CONFLICT (security_id, date) DO UPDATE SET ... /
\* DO NOTHING when update_columns is empty
UpsertPriceRow(tbl, row, update_columns) ==
    IF PriceKey(row) \in DOMAIN tbl
    THEN [tbl EXCEPT ![PriceKey(row)] =
             [c \in PriceColumns |->
                 IF c \in update_columns THEN row[c] ELSE @[c]]]
    ELSE [k \in DOMAIN tbl \cup {PriceKey(row)} |->
             IF k = PriceKey(row) THEN row ELSE tbl[k]]

\* an upsert that takes the columns of each record from that record
RECURSIVE UpsertPriceRowsPerRecord(_, _, _, _)
UpsertPriceRowsPerRecord(tbl, batch, cols, update_columns) ==
    IF batch = <<>> THEN tbl
    ELSE UpsertPriceRowsPerRecord(
             UpsertPriceRow(tbl,
                            DailyPriceProposedRow(Head(batch),
                                                  DOMAIN Head(batch)),
                            PriceUpsertColumns \cap DOMAIN Head(batch)),
             Tail(batch), cols, update_columns)

RECURSIVE UpsertPriceRows(_, _, _, _)
UpsertPriceRows(tbl, batch, cols, update_columns) ==
    IF batch = <<>> THEN tbl
    ELSE UpsertPriceRows(
             UpsertPriceRow(tbl, DailyPriceProposedRow(Head(batch), cols),
                            update_columns),
             Tail(batch), cols, update_columns)

\* DatabaseManager.upsert_daily_prices: [ok, tbl] after the call.  The
\* statement's columns and update_columns come from the first record; the
\* statement fails as a whole when a later record lacks one of those columns,
\* when the key columns are missing or NULL, when security_id has no
\* securities row, or when DO UPDATE would touch one row twice.
UpsertDailyPrices(tbl, secs, price_data) ==
    IF price_data = <<>> THEN [ok |-> TRUE, tbl |-> tbl]
    ELSE LET cols == DOMAIN price_data[1]
             update_columns == PriceUpsertColumns \cap cols
             n == Len(price_data)
         IN IF \/ ~({"security_id", "date"} \subseteq cols)
               \/ \E i \in 1..n : ~(cols \subseteq DOMAIN price_data[i])
            THEN [ok |-> FALSE, tbl |-> tbl]
            ELSE IF \/ \E i \in 1..n :
                         \/ price_data[i].security_id \notin DOMAIN secs
                         \/ price_data[i].date = NULL
                    \/ /\ update_columns # {}
                       /\ \E i, j \in 1..n :
                            /\ i < j
                            /\ PriceKey(price_data[i]) = PriceKey(price_data[j])
            THEN [ok |-> FALSE, tbl |-> tbl]
            ELSE [ok |-> TRUE,
                  tbl |-> UpsertPriceRows(tbl, price_data, cols, update_columns)]

\* session.merge(record): every attribute of the record goes to the row with
\* its primary key; the row is created when the key is not stored
MergeRecord(tbl, record) ==
    [k \in DOMAIN tbl \cup {PriceKey(record)} |->
        IF k = PriceKey(record) THEN record ELSE tbl[k]]

RECURSIVE MergeRecords(_, _)
MergeRecords(tbl, records) ==
    IF records = <<>> THEN tbl
    ELSE MergeRecords(MergeRecord(tbl, Head(records)), Tail(records))

\* DatabaseManager.bulk_update_records: number of records and table after
BulkUpdateRecords(tbl, records) ==
    IF records = <<>> THEN [n |-> 0, tbl |-> tbl]
    ELSE [n |-> Len(records), tbl |-> MergeRecords(tbl, records)]

\* payloads tried on upsert_daily_prices: vendor-shaped records built from a
\* value tag v, every column getting its own value
PriceFieldSets ==
    {{"security_id", "date"},
     {"security_id", "date", "open"},
     {"security_id", "date", "open", "high", "low", "close", "volume"},
     PriceColumns \ {"adj_factor"},
     {"security_id", "date", "adj_factor"}}

PriceValue(c, v) ==
    CASE c = "open" -> 10 + v
      [] c = "high" -> 20 + v
      [] c = "low" -> 30 + v
      [] c = "close" -> 40 + v
      [] c = "volume" -> 50 + v
      [] c = "turnover" -> 60 + v
      [] c = "vwap" -> 70 + v
      [] c = "turnover_rate" -> 80 + v
      [] c = "adj_factor" -> 90 + v
      [] OTHER -> NULL

PriceRecord(fs, security_id, d, v) ==
    [c \in fs |-> IF c = "security_id" THEN security_id
                  ELSE IF c = "date" THEN d
                  ELSE PriceValue(c, v)]

PriceInputs ==
    {PriceRecord(fs, id, d, v) :
        fs \in PriceFieldSets, id \in {1, MaxSec + 1}, d \in {1, 2}, v \in {1, 2}}

SingleBatches(S) == {<<a>> : a \in S}

\* a caller runs upsert_daily_prices(price_data)
PriceUpsert(batch) ==
    /\ Budget
    /\ LET r == UpsertDailyPrices(prices, securities, batch) IN
         /\ prices' = r.tbl
         /\ last' = [op |-> "upsert_daily_prices", batch |-> batch,
                     ok |-> r.ok,
                     existed |-> (batch # <<>>
                                  /\ {"security_id", "date"} \subseteq DOMAIN batch[1]
                                  /\ PriceKey(batch[1]) \in DOMAIN prices)]
    /\ ops' = ops + 1
    /\ UNCHANGED <<securities, dividends, splits, today, vendor>>
    /\ UNCHANGED <<limiterVars, run>>

\* a caller loads stored rows, sets attributes and runs bulk_update_records
PriceBulkUpdate(keys, v) ==
    /\ Budget
    /\ \A i \in 1..Len(keys) : keys[i] \in DOMAIN prices
    /\ LET records == [i \in 1..Len(keys) |->
                          [prices[keys[i]] EXCEPT !["open"] = PriceValue("open", v),
                                                  !["close"] = PriceValue("close", v)]]
           r == BulkUpdateRecords(prices, records)
       IN /\ prices' = r.tbl
          /\ last' = [op |-> "bulk_update_records", records |-> records,
                      n |-> r.n]
    /\ ops' = ops + 1
    /\ UNCHANGED <<securities, dividends, splits, today, vendor>>
    /\ UNCHANGED <<limiterVars, run>>

PriceKeys == {<<id, d>> : id \in SecIds, d \in {1, 2}}

PriceStoreNext ==
    \/ \E batch \in SingleBatches(PriceInputs) \cup {<<>>} : PriceUpsert(batch)
    \/ \E a, b \in PriceInputs :
          /\ DOMAIN a = PriceColumns \ {"adj_factor"}
          /\ PriceUpsert(<<a, b>>)
    \/ \E a, b \in PriceInputs :
          /\ DOMAIN a = {"security_id", "date", "open"}
          /\ DOMAIN b = PriceColumns \ {"adj_factor"}
          /\ PriceUpsert(<<a, b>>)
    \/ \E keys \in BatchesOf(PriceKeys), v \in {3} : PriceBulkUpdate(keys, v)

PriceStoreInit == LimiterIdle /\ StoreIdle

PriceStoreSpec == PriceStoreInit /\ [][PriceStoreNext]_vars

\* ---- failing batches
\* get_session: `except Exception: session.rollback(); raise` - what the
\* transaction had written so far is dropped
RollbackKeepsPending(before, pending) == pending
Rollback(before, pending) == before

\* bulk_update_records when the flush of the k-th record raises at commit
BulkUpdateRecordsRaising(tbl, records, k) ==
    [ok |-> FALSE,
     tbl |-> Rollback(tbl, MergeRecords(tbl, SubSeq(records, 1, k - 1)))]

\* DatabaseManager.upsert_dividends_native_sql: one transaction, one INSERT
\* per record, each in its own try/except and none in a savepoint.  The first
\* failing INSERT aborts the transaction: every later INSERT fails as well
\* and the final COMMIT rolls back.  The call itself never raises.
UpsertDividendsNativeSql(tbl, secs, security_id, dividends_data) ==
    LET data == WithSecurityId(dividends_data, security_id) IN
    IF \E i \in 1..Len(data) : ~DividendRowValid(data[i], secs)
    THEN [ok |-> TRUE, tbl |-> tbl]
    ELSE [ok |-> TRUE, tbl |-> InsertIgnoring(tbl, data, DividendIndexElements)]

\* a caller runs upsert_dividends_native_sql(security_id, dividends_data)
DivUpsertNative(security_id, batch) ==
    /\ Budget
    /\ LET r == UpsertDividendsNativeSql(dividends, securities, security_id,
                                         batch) IN
         /\ dividends' = r.tbl
         /\ last' = [op |-> "upsert_dividends_native_sql", id |-> security_id,
                     batch |-> batch, ok |-> r.ok, dup |-> FALSE]
    /\ ops' = ops + 1
    /\ UNCHANGED <<securities, prices, splits, today, vendor>>
    /\ UNCHANGED <<limiterVars, run>>

\* a caller runs bulk_update_records and the k-th record cannot be written
PriceBulkUpdateRaising(keys, v, k) ==
    /\ Budget
    /\ k \in 1..Len(keys)
    /\ \A i \in 1..Len(keys) : keys[i] \in DOMAIN prices
    /\ LET records == [i \in 1..Len(keys) |->
                          [prices[keys[i]] EXCEPT !["open"] = PriceValue("open", v),
                                                  !["close"] = PriceValue("close", v)]]
           r == BulkUpdateRecordsRaising(prices, records, k)
       IN /\ prices' = r.tbl
          /\ last' = [op |-> "bulk_update_records", records |-> records,
                      n |-> 0, ok |-> r.ok]
    /\ ops' = ops + 1
    /\ UNCHANGED <<securities, dividends, splits, today, vendor>>
    /\ UNCHANGED <<limiterVars, run>>

\* batches with a record the table rejects next to records it accepts
FailingDividends ==
    {[ex_dividend_date |-> 1, cash_amount |-> a, currency |-> cu,
      frequency |-> NULL] : a \in {1, 2}, cu \in {NULL, 1}}

FailingSplits ==
    {[execution_date |-> d, declaration_date |-> NULL, split_to |-> st,
      split_from |-> 1] : d \in {1, 2}, st \in {NULL, 2}}

FailingPrices ==
    {PriceRecord(PriceColumns \ {"adj_factor"}, id, d, 1) :
        id \in {1, MaxSec + 1}, d \in {1, 2}}

PairsOf(S) == {<<a, b>> : a, b \in S}

BatchNext ==
    \/ \E batch \in PairsOf(FailingDividends) : DivUpsert(1, batch)
    \/ \E batch \in PairsOf(FailingDividends) : DivUpsertNative(1, batch)
    \/ \E batch \in PairsOf(FailingSplits) : SplitUpsert(1, batch)
    \/ \E batch \in PairsOf(FailingPrices) : PriceUpsert(batch)
    \/ \E keys \in PairsOf(PriceKeys), k \in 1..2 :
          PriceBulkUpdateRaising(keys, 3, k)

BatchSpec == PriceStoreInit /\ [][BatchNext]_vars


\* ------------------------------------------------------------- task workers
\* Text values are codes: code 2 is the lower-case spelling of code 1, and
\* ticker 100 + i is the upper-case spelling of symbol i.
Upper(x) == IF x = 2 THEN 1 ELSE x
Lower(t) == IF t > 100 THEN t - 100 ELSE t
Ticker(i) == 100 + i

IncrementalCheckDays == 2
ActionsUpdateIntervalDays == 90
Epoch1970 == 0
NaN == 0 - 1

SetMax(S) == CHOOSE x \in S : \A y \in S : y <= x
SetMin(S) == CHOOSE x \in S : \A y \in S : x <= y

\* ---- scripts/update_em_daily_prices.py

\* the price-increment selection without the em_code condition
EmCandidatesAnyCode(secs, market, em_codes, full_refresh, day) ==
    {i \in DOMAIN secs :
        /\ secs[i].is_active = ActiveTrue
        /\ Upper(secs[i].market) = Upper(market)
        /\ (em_codes # {} => secs[i].em_code \in em_codes)
        /\ (~full_refresh =>
              \/ secs[i].price_data_latest_date = NULL
              \/ secs[i].price_data_latest_date < day - IncrementalCheckDays)}

\* get_securities_to_update of the price increment (limit not applied)
EmCandidates(secs, market, em_codes, full_refresh, day) ==
    {i \in DOMAIN secs :
        /\ secs[i].is_active = ActiveTrue
        /\ secs[i].em_code # NULL
        /\ Upper(secs[i].market) = Upper(market)
        /\ (em_codes # {} => secs[i].em_code \in em_codes)
        /\ (~full_refresh =>
              \/ secs[i].price_data_latest_date = NULL
              \/ secs[i].price_data_latest_date < day - IncrementalCheckDays)}

\* one row of akshare.stock_us_hist after renaming and cleaning
EmRecord(security_id, d, tag) ==
    [c \in PriceColumns \ {"adj_factor"} |->
        CASE c = "security_id" -> security_id
          [] c = "date" -> d
          [] c = "turnover_rate" -> (100 * PriceValue(c, tag)) \div 100
          [] c = "vwap" -> NaN
          [] OTHER -> PriceValue(c, tag)]

\* the dates the vendor returns for [start_date, end_date]
EmFetch(vnd, s, start_date, end_date) ==
    {d \in 1..vnd.em_horizon : start_date <= d /\ d <= end_date}

DatesToRecords(security_id, df, tag) ==
    IF df = {} THEN <<>>
    ELSE [i \in 1..Cardinality(df) |->
             EmRecord(security_id, SetMin(df) + i - 1, tag)]

TodayAsLatest(day) == day
Yesterday(day) == day - 1

\* process_security decides between a full run and an increment
IsFullRun(sec, full_refresh) ==
    full_refresh \/ sec.price_data_latest_date = NULL

\* process_security of the price increment: status, tables, rows synced.
\* fault names the call that raises: "fetch", "persist", "stamp" or "none".
ProcessSecurityPrices(secs, prc, s, full_refresh, fault, day, vnd) ==
    LET latest == secs[s].price_data_latest_date
        is_full_run == IsFullRun(secs[s], full_refresh)
        start_date == IF is_full_run THEN Epoch1970 ELSE latest + 1
        df == EmFetch(vnd, s, start_date, day)
        same(st) == [status |-> st, secs |-> secs, prices |-> prc, rows |-> 0]
    IN IF start_date > day THEN same("SUCCESS_UP_TO_DATE")
       ELSE IF fault = "fetch" THEN same("ERROR")
       ELSE IF df = {}
       THEN IF full_refresh THEN same("SUCCESS_NO_NEW_DATA")
            ELSE IF fault = "stamp" THEN same("ERROR")
            ELSE [status |-> "SUCCESS_NO_NEW_DATA",
                  secs |-> UpdateSecurityPriceLatestDate(
                               secs, s, Yesterday(day), is_full_run, day),
                  prices |-> prc, rows |-> 0]
       ELSE LET price_data == DatesToRecords(s, df, vnd.em_tag)
                r == UpsertDailyPrices(prc, secs, price_data)
            IN IF fault = "persist" \/ ~r.ok THEN same("ERROR")
               ELSE IF fault = "stamp"
               THEN [status |-> "ERROR", secs |-> secs, prices |-> r.tbl,
                     rows |-> 0]
               ELSE [status |-> "SUCCESS",
                     secs |-> UpdateSecurityPriceLatestDate(
                                  secs, s, SetMax(df), is_full_run, day),
                     prices |-> r.tbl, rows |-> Len(price_data)]

\* ---- scripts/update_grouped_daily.py

\* one entry of the grouped-daily payload
Agg(t, tag) ==
    [T |-> t, o |-> PriceValue("open", 2 + tag), h |-> PriceValue("high", 2 + tag),
     l |-> PriceValue("low", 2 + tag), c |-> PriceValue("close", 2 + tag),
     v |-> PriceValue("volume", 2 + tag), vw |-> PriceValue("vwap", 2 + tag)]

\* symbol_to_id_map.get(symbol): NULL when the symbol is unknown
SymbolToId(secs, symbol) ==
    IF \E i \in DOMAIN secs : Lower(secs[i].symbol) = symbol
    THEN CHOOSE i \in DOMAIN secs : Lower(secs[i].symbol) = symbol
    ELSE NULL

\* the attribute assignments on one loaded record
RepriceAccumulating(record, agg) ==
    [record EXCEPT !["open"] = agg.o, !["high"] = agg.h, !["low"] = agg.l,
                   !["close"] = agg.c, !["volume"] = agg.v, !["vwap"] = agg.vw,
                   !["turnover"] = @ + agg.v * agg.vw]
RepriceAll(record, agg) ==
    [record EXCEPT !["open"] = agg.o, !["high"] = agg.h, !["low"] = agg.l,
                   !["close"] = agg.c, !["volume"] = agg.v, !["vwap"] = agg.vw,
                   !["turnover"] = agg.v * agg.vw,
                   !["turnover_rate"] = NULL, !["adj_factor"] = NULL]
Reprice(record, agg) ==
    [record EXCEPT !["open"] = agg.o, !["high"] = agg.h, !["low"] = agg.l,
                   !["close"] = agg.c, !["volume"] = agg.v, !["vwap"] = agg.vw,
                   !["turnover"] = agg.v * agg.vw]

RECURSIVE IdsToRecords(_, _, _, _, _)
IdsToRecords(ids, prc, secs, d, aggs) ==
    IF ids = {} THEN <<>>
    ELSE LET i == SetMin(ids)
             agg == CHOOSE a \in aggs : SymbolToId(secs, Lower(a.T)) = i
         IN <<Reprice(prc[<<i, d>>], agg)>>
            \o IdsToRecords(ids \ {i}, prc, secs, d, aggs)

\* a reprice that inserts a row for every known symbol of the payload
ProcessDateUpserting(prc, secs, d, fault, vnd) ==
    LET daily_aggs == {Agg(t, vnd.pg_tag) : t \in vnd.pg_tickers}
        known == {SymbolToId(secs, Lower(a.T)) : a \in daily_aggs} \ {NULL}
    IN [status |-> "SUCCESS",
        prices |-> [k \in DOMAIN prc \cup {<<i, d>> : i \in known} |->
                      IF k \in DOMAIN prc THEN prc[k]
                      ELSE DailyPriceProposedRow(
                               [security_id |-> k[1], date |-> d],
                               {"security_id", "date"})],
        rows |-> Cardinality(known), fetches |-> 1]

\* get_grouped_daily_data calls of process_date: the date without stored
\* rows returns before the fetch
GroupedFetchesAlways(existing) == 1
GroupedFetches(existing) == IF existing = {} THEN 0 ELSE 1

\* process_date: status, table, number of refreshed rows, vendor fetches.
\* The vendor client swallows its errors and returns [] while the vendor is
\* down; fault "persist": the store call raises.
ProcessDate(prc, secs, d, fault, vnd) ==
    LET existing == {k[1] : k \in {x \in DOMAIN prc : x[2] = d}}
        daily_aggs == IF vnd.pg_down THEN {}
                      ELSE {Agg(t, vnd.pg_tag) : t \in vnd.pg_tickers}
        hit == {i \in existing :
                  \E a \in daily_aggs : SymbolToId(secs, Lower(a.T)) = i}
        same(st) == [status |-> st, prices |-> prc, rows |-> 0,
                     fetches |-> GroupedFetches(existing)]
    IN IF existing = {} THEN same("SKIPPED_NO_EXISTING_DATA")
       ELSE IF daily_aggs = {} THEN same("SUCCESS_NO_API_DATA")
       ELSE IF hit = {} THEN same("SUCCESS_NO_INTERSECTION")
       ELSE IF fault = "persist" THEN same("ERROR")
       ELSE LET r == BulkUpdateRecords(
                         prc, IdsToRecords(hit, prc, secs, d, daily_aggs))
            IN [status |-> "SUCCESS", prices |-> r.tbl, rows |-> r.n,
                fetches |-> GroupedFetches(existing)]

\* ---- scripts/update_actions_from_polygon.py

\* get_securities_to_update of the actions refresh (limit not applied)
ActionCandidatesNamedBypass(secs, symbols, market, force, now) ==
    {i \in DOMAIN secs :
        /\ secs[i].is_active = ActiveTrue
        /\ IF symbols # {} THEN secs[i].symbol \in {Lower(x) : x \in symbols}
           ELSE /\ (market # NULL => Upper(secs[i].market) = Upper(market))
                /\ (~force =>
                      \/ secs[i].actions_last_updated_at = NULL
                      \/ secs[i].actions_last_updated_at
                             < now - ActionsUpdateIntervalDays)}
ActionCandidates(secs, symbols, market, force, now) ==
    {i \in DOMAIN secs :
        /\ secs[i].is_active = ActiveTrue
        /\ IF symbols # {} THEN secs[i].symbol \in {Lower(x) : x \in symbols}
           ELSE (market # NULL => Upper(secs[i].market) = Upper(market))
        /\ (~force =>
              \/ secs[i].actions_last_updated_at = NULL
              \/ secs[i].actions_last_updated_at
                     < now - ActionsUpdateIntervalDays)}

\* PolygonSource.get_dividends / get_splits: records lacking a required
\* field are dropped
ValidDividends(raw) ==
    SelectSeq(raw, LAMBDA d : d.ex_dividend_date # NULL /\ d.cash_amount # NULL)
ValidSplits(raw) ==
    SelectSeq(raw, LAMBDA x : x.execution_date # NULL /\ x.split_to # NULL)

\* fill a missing dividend currency from the security's currency
RepairCurrency(divs, sec) ==
    IF divs # <<>> /\ sec.currency # NULL
    THEN [i \in 1..Len(divs) |->
             IF divs[i].currency = NULL
             THEN [divs[i] EXCEPT !["currency"] = Upper(sec.currency)]
             ELSE divs[i]]
    ELSE divs

\* process_security of the actions refresh: status and tables.
\* The vendor client swallows its errors and returns [] while the vendor is
\* down; fault "dividends", "splits", "stamp": the named store call raises.
\* step 3 of process_security: the stamp is written whether or not anything
\* was fetched
\* an actions task that stamps before it persists
ProcessSecurityActionsStampFirst(secs, divs, spl, s, fault, now, vnd) ==
    LET fetched_d == IF vnd.pg_down THEN <<>> ELSE ValidDividends(vnd.divs)
        fetched_s == IF vnd.pg_down THEN <<>> ELSE ValidSplits(vnd.splits)
        ds == RepairCurrency(fetched_d, secs[s])
        stamped == UpdateSecurityTimestamp(secs, s, "actions_last_updated_at",
                                           now).tbl
        r1 == UpsertDividends(divs, secs, s, ds)
        r2 == UpsertSplits(spl, secs, s, fetched_s)
    IN IF ds # <<>> /\ (fault = "dividends" \/ ~r1.ok)
       THEN [status |-> "ERROR", secs |-> stamped, dividends |-> divs,
             splits |-> spl]
       ELSE IF fetched_s # <<>> /\ (fault = "splits" \/ ~r2.ok)
       THEN [status |-> "ERROR", secs |-> stamped, dividends |-> r1.tbl,
             splits |-> spl]
       ELSE [status |-> IF ds = <<>> /\ fetched_s = <<>>
                        THEN "SUCCESS_NO_ACTIONS" ELSE "SUCCESS",
             secs |-> stamped, dividends |-> r1.tbl, splits |-> r2.tbl]

StampOnlyWithActions(secs, s, now, empty) ==
    IF empty THEN secs
    ELSE UpdateSecurityTimestamp(secs, s, "actions_last_updated_at", now).tbl

StampActions(secs, s, now, empty) ==
    UpdateSecurityTimestamp(secs, s, "actions_last_updated_at", now).tbl

ProcessSecurityActions(secs, divs, spl, s, fault, now, vnd) ==
    LET fetched_d == IF vnd.pg_down THEN <<>> ELSE ValidDividends(vnd.divs)
        fetched_s == IF vnd.pg_down THEN <<>> ELSE ValidSplits(vnd.splits)
        ds == RepairCurrency(fetched_d, secs[s])
        r1 == UpsertDividends(divs, secs, s, ds)
        r2 == UpsertSplits(spl, secs, s, fetched_s)
        res(st, se, d, p) == [status |-> st, secs |-> se, dividends |-> d,
                              splits |-> p]
    IN IF ds # <<>> /\ (fault = "dividends" \/ ~r1.ok)
       THEN res("ERROR", secs, divs, spl)
       ELSE IF fetched_s # <<>> /\ (fault = "splits" \/ ~r2.ok)
       THEN res("ERROR", secs, r1.tbl, spl)
       ELSE IF fault = "stamp"
       THEN res("ERROR", secs, r1.tbl, r2.tbl)
       ELSE res(IF ds = <<>> /\ fetched_s = <<>> THEN "SUCCESS_NO_ACTIONS"
                ELSE "SUCCESS",
                StampActions(secs, s, now, ds = <<>> /\ fetched_s = <<>>),
                r1.tbl, r2.tbl)

\* ---- the commands, one task at a time

CanRun == ops < MaxRuns

\* observer: the command that ran last, and whether it repeats the command
\* before it (same command, same arguments, nothing else in between)
Ran(op, id, flag, status) ==
    [op |-> op, id |-> id, flag |-> flag, status |-> status,
     again |-> /\ last.op = op
               /\ last.id = id
               /\ last.flag = flag
               /\ last.status # "ERROR"]

DefaultMarket == 1

\* update_em_prices [--full-refresh] processes one of its candidates
PriceTask(s, full_refresh, fault) ==
    /\ CanRun
    /\ s \in EmCandidates(securities, DefaultMarket, {}, full_refresh, today)
    /\ LET r == ProcessSecurityPrices(securities, prices, s, full_refresh,
                                      fault, today, vendor)
       IN /\ securities' = r.secs
          /\ prices' = r.prices
          /\ last' = Ran("price_increment", s, full_refresh, r.status)
    /\ ops' = ops + 1
    /\ UNCHANGED <<dividends, splits, today, vendor>>
    /\ UNCHANGED <<limiterVars, run>>

\* update_actions --all [--force] processes one of its candidates
ActionsTask(s, force, fault) ==
    /\ CanRun
    /\ s \in ActionCandidates(securities, {}, NULL, force, today)
    /\ LET r == ProcessSecurityActions(securities, dividends, splits, s, fault,
                                       today, vendor)
       IN /\ securities' = r.secs
          /\ dividends' = r.dividends
          /\ splits' = r.splits
          /\ last' = Ran("actions_refresh", s, force, r.status)
    /\ ops' = ops + 1
    /\ UNCHANGED <<prices, today, vendor>>
    /\ UNCHANGED <<limiterVars, run>>

\* update_polygon_prices processes one date of its range
GroupedTask(d, fault) ==
    /\ CanRun
    /\ LET r == ProcessDate(prices, securities, d, fault, vendor)
       IN /\ prices' = r.prices
          /\ last' = Ran("grouped_daily", d, FALSE, r.status)
    /\ ops' = ops + 1
    /\ UNCHANGED <<securities, dividends, splits, today, vendor>>
    /\ UNCHANGED <<limiterVars, run>>

\* the daily-price vendor publishes the next trading day
VendorPublish ==
    /\ vendor.em_horizon < today
    /\ vendor' = [vendor EXCEPT !.em_horizon = @ + 1]
    /\ last' = Outside("vendor")
    /\ UNCHANGED <<securities, prices, dividends, splits, today, ops>>
    /\ UNCHANGED <<limiterVars, run>>

\* the vendors revise the values they serve
VendorRevise ==
    /\ vendor.em_tag = 1
    /\ vendor' = [vendor EXCEPT !.em_tag = 2, !.pg_tag = 2]
    /\ last' = Outside("vendor")
    /\ UNCHANGED <<securities, prices, dividends, splits, today, ops>>
    /\ UNCHANGED <<limiterVars, run>>

VendorDividends ==
    <<[ex_dividend_date |-> 1, cash_amount |-> 1, currency |-> 1,
       frequency |-> 4],
      [ex_dividend_date |-> 2, cash_amount |-> 1, currency |-> NULL,
       frequency |-> 4],
      [ex_dividend_date |-> NULL, cash_amount |-> 2, currency |-> 1,
       frequency |-> NULL]>>

VendorSplits ==
    <<[execution_date |-> 1, declaration_date |-> NULL, split_to |-> 2,
       split_from |-> 1],
      [execution_date |-> 2, declaration_date |-> NULL, split_to |-> NULL,
       split_from |-> 1]>>

\* the corporate-actions and grouped-daily vendor goes down
VendorOutage ==
    /\ ~vendor.pg_down
    /\ vendor' = [vendor EXCEPT !.pg_down = TRUE]
    /\ last' = Outside("vendor")
    /\ UNCHANGED <<securities, prices, dividends, splits, today, ops>>
    /\ UNCHANGED <<limiterVars, run>>

TaskVendor ==
    [em_horizon |-> 1, em_tag |-> 1, pg_down |-> FALSE,
     pg_tickers |-> {Ticker(1), Ticker(MaxSec + 1)}, pg_tag |-> 1,
     divs |-> VendorDividends, splits |-> VendorSplits]

\* The tasks start on day FirstDay from the store an earlier price increment
\* left behind on day FirstDay - 1: security 1 is synced, the others are new.
EarlierRun ==
    ProcessSecurityPrices([i \in SecIds |-> SeedSecurity(i)], <<>>, 1, FALSE,
                          "none", FirstDay - 1, TaskVendor)

TaskInit ==
    /\ LimiterIdle
    /\ securities = EarlierRun.secs
    /\ prices = EarlierRun.prices
    /\ dividends = {}
    /\ splits = {}
    /\ today = FirstDay
    /\ ops = 0
    /\ last = Outside("none")
    /\ vendor = TaskVendor

PriceFaults == {"none", "fetch", "persist", "stamp"}

\* The price increment alone, on securities that were never synced, with a
\* vendor that has nothing yet (em_horizon 0) or one day of history.
IncrementInit ==
    /\ LimiterIdle
    /\ securities = [i \in SecIds |-> SeedSecurity(i)]
    /\ prices = <<>>
    /\ dividends = {}
    /\ splits = {}
    /\ today = FirstDay
    /\ ops = 0
    /\ last = Outside("none")
    /\ vendor \in {[TaskVendor EXCEPT !.em_horizon = h] : h \in 0..1}

IncrementNext ==
    \/ \E s \in SecIds, fr \in BOOLEAN, f \in PriceFaults : PriceTask(s, fr, f)
    \/ VendorPublish
    \/ VendorRevise
    \/ NextDay

IncrementSpec == IncrementInit /\ [][IncrementNext]_vars
ActionFaults == {"none", "dividends", "splits", "stamp"}
GroupedFaults == {"none", "persist"}

TaskNext ==
    \/ \E s \in SecIds, fr \in BOOLEAN, f \in PriceFaults : PriceTask(s, fr, f)
    \/ \E s \in SecIds, force \in BOOLEAN, f \in ActionFaults :
          ActionsTask(s, force, f)
    \/ \E d \in Days, f \in GroupedFaults : GroupedTask(d, f)
    \/ VendorPublish
    \/ VendorRevise
    \/ VendorOutage
    \/ NextDay

TaskSpec == TaskInit /\ [][TaskNext]_vars

\* ------------------------------------------------------------ details task
UpdateIntervalDays == 30

\* what get_ticker_details answers for a symbol
DetailsOutcomes == {"ok", "not_found", "http_error", "error"}

\* the TickerDetails the vendor returns
DetailsResponse == [name |-> 2, currency_name |-> 1, cik |-> 2, active |-> ActiveTrue]

\* update_data: symbol, is_active, the fields that are not None, and market
DetailsUpdateData(sec, resp) ==
    [symbol |-> Lower(sec.symbol), is_active |-> resp.active,
     name |-> resp.name, currency |-> resp.currency_name, cik |-> resp.cik,
     market |-> sec.market]

\* the record update_security_details sends to upsert_security_info on a 404
DetailsNotFoundData(sec) == [symbol |-> sec.symbol, is_active |-> ActiveFalse]

\* update_security_details: the table after the call, whether an exception
\* left the function, and what the function did
UpdateSecurityDetails(secs, s, force, outcome, draw, now) ==
    LET sec == secs[s]
        out(r, w, t) == [raised |-> r, status |-> w, secs |-> t]
    IN IF /\ ~force
          /\ sec.info_last_updated_at # NULL
          /\ sec.info_last_updated_at > now - UpdateIntervalDays
       THEN out(FALSE, "SKIPPED", secs)
       ELSE IF outcome = "not_found"
       THEN LET r == UpsertSecurityInfo(secs, DetailsNotFoundData(sec), draw,
                                        now)
            IN IF r.ok THEN out(FALSE, "NOT_FOUND", r.tbl)
               ELSE out(TRUE, "RAISED", secs)
       ELSE IF outcome \in {"http_error", "error"}
       THEN out(FALSE, "ERROR", secs)
       ELSE LET r == UpsertSecurityInfo(
                         secs, DetailsUpdateData(sec, DetailsResponse), draw, now)
            IN IF r.ok THEN out(FALSE, "UPDATED", r.tbl)
               ELSE out(FALSE, "ERROR", secs)

\* ---- data_sources/polygon_source.py, data_updater.py

\* PolygonSource.get_security_info: what the caller gets for a vendor answer
\* ("data", "empty" for None, "raised" for an exception); 429, 404, other
\* HTTP errors and every other exception are logged and give None
GetSecurityInfo(outcome) == IF outcome = "ok" THEN "data" ELSE "empty"

\* update_stock_info(db_manager, symbol, data_source, force_update): what was
\* fetched, whether the is_active = False branch was taken, and the table
\* after the call.  The UPDATE of that branch runs in a session that is
\* closed without commit; the upsert of the data branch is caught when it
\* raises.
UpdateStockInfo(secs, s, force_update, outcome, draw, now) ==
    LET sec == secs[s]
        info == GetSecurityInfo(outcome)
        out(f, d, t) == [fetched |-> f, deactivate |-> d, secs |-> t]
    IN IF ~force_update /\ sec.info_last_updated_at > now - UpdateIntervalDays
       THEN out("none", FALSE, secs)
       ELSE IF info = "empty" THEN out(info, TRUE, secs)
       ELSE LET r == UpsertSecurityInfo(
                         secs,
                         [symbol |-> Lower(sec.symbol),
                          name |-> DetailsResponse.name,
                          currency |-> DetailsResponse.currency_name,
                          is_active |-> ActiveTrue],
                         draw, now)
            IN out(info, FALSE, IF r.ok THEN r.tbl ELSE secs)

\* a caller runs update_stock_info on a stored symbol
StockInfo(s, force_update, outcome) ==
    /\ Budget
    /\ LET r == UpdateStockInfo(securities, s, force_update, outcome,
                                IntervalLow, today) IN
         /\ securities' = r.secs
         /\ last' = [op |-> "update_stock_info", id |-> s, outcome |-> outcome,
                     fetched |-> r.fetched, deactivate |-> r.deactivate]
    /\ ops' = ops + 1
    /\ UNCHANGED <<prices, dividends, splits, today, vendor>>
    /\ UNCHANGED <<limiterVars, run>>

InfoNext ==
    \/ \E s \in SecIds, force_update \in BOOLEAN, outcome \in DetailsOutcomes :
          StockInfo(s, force_update, outcome)
    \/ SecurityStoreNext

InfoSpec == SecurityStoreInit /\ [][InfoNext]_vars

\* main of the details refresh: the securities it loops over (no freshness
\* test here; the task makes it)
DetailsCandidates(secs, symbols, market) ==
    {i \in DOMAIN secs :
        /\ secs[i].is_active = ActiveTrue
        /\ IF symbols # {} THEN secs[i].symbol \in {Lower(x) : x \in symbols}
           ELSE (market # NULL => secs[i].market = Upper(market))}

\* rows in primary-key order, whatever their stamps
RECURSIVE OrderById(_, _, _)
OrderById(ids, secs, field) ==
    IF ids = {} THEN <<>>
    ELSE LET first == CHOOSE i \in ids : \A j \in ids : i <= j
         IN <<first>> \o OrderById(ids \ {first}, secs, field)

\* query.limit(n) when n > 0
Limit(rows, n) == IF n > 0 THEN SubSeq(rows, 1, Min2(n, Len(rows))) ELSE rows

\* ORDER BY stamp ASC NULLS FIRST (ties by id)
RECURSIVE OrderByStamp(_, _, _)
OrderByStamp(ids, secs, field) ==
    IF ids = {} THEN <<>>
    ELSE LET first == CHOOSE i \in ids : \A j \in ids \ {i} :
                          \/ secs[i][field] < secs[j][field]
                          \/ (secs[i][field] = secs[j][field] /\ i < j)
         IN <<first>> \o OrderByStamp(ids \ {first}, secs, field)

\* ------------------------------------------------------ candidate selection
\* The selectors are tried on a store that has been in use for a long time.
SelectorNow == 100

SelectorRows ==
    {[SeedSecurity(1) EXCEPT !.is_active = a,
                             !.price_data_latest_date = l,
                             !.full_data_last_updated_at = f,
                             !.actions_last_updated_at = x,
                             !.full_refresh_interval = n] :
        a \in {ActiveTrue, ActiveFalse},
        l \in {NULL, SelectorNow - 1, SelectorNow - 3},
        f \in {NULL, SelectorNow - 31},
        x \in {NULL, SelectorNow - 1, SelectorNow - 91},
        n \in IntervalDraws}

\* the second security is as seeded, or lacks an em_code and has its market
\* stored in lower case, or belongs to another market
SelectorSecond ==
    {SeedSecurity(2),
     [SeedSecurity(2) EXCEPT !.em_code = NULL, !.market = DefaultMarket + 1],
     [SeedSecurity(2) EXCEPT !.market = DefaultMarket + 2]}

SelectorInit ==
    /\ LimiterIdle
    /\ \E row \in SelectorRows, second \in SelectorSecond :
          securities = [i \in SecIds |-> CASE i = 1 -> row
                                          [] i = 2 -> second
                                          [] OTHER -> SeedSecurity(i)]
    /\ prices = <<>>
    /\ dividends = {}
    /\ splits = {}
    /\ today = SelectorNow
    /\ ops = 0
    /\ last = Outside("none")
    /\ vendor = NoVendor

\* the securities a command line can name: a stored one and an unknown one
NamedIds == {{}, {1}, {1, MaxSec + 1}}

\* update_em_prices [em_codes] [--full-refresh] selects its candidates
SelectEm(em_codes, full_refresh) ==
    /\ last' = [op |-> "select_em", names |-> em_codes, flag |-> full_refresh,
                result |-> EmCandidates(securities, DefaultMarket, em_codes,
                                        full_refresh, today)]
    /\ UNCHANGED <<securities, prices, dividends, splits, today, ops, vendor>>
    /\ UNCHANGED <<limiterVars, run>>

\* update_actions [symbols] [--force] selects its candidates
SelectActions(ids, force) ==
    /\ last' = [op |-> "select_actions", names |-> ids, flag |-> force,
                result |-> ActionCandidates(securities,
                                            {Ticker(i) : i \in ids}, NULL,
                                            force, today)]
    /\ UNCHANGED <<securities, prices, dividends, splits, today, ops, vendor>>
    /\ UNCHANGED <<limiterVars, run>>

\* get_securities_to_update of the actions refresh, as main receives it:
\* ordered and limited
GetActionSecurities(secs, symbols, market, force, limit, now) ==
    Limit(OrderByStamp(ActionCandidates(secs, symbols, market, force, now),
                       secs, "actions_last_updated_at"),
          limit)

\* get_securities_to_update of the price increment, ordered and limited
GetEmSecurities(secs, market, em_codes, full_refresh, limit, day) ==
    Limit(OrderByStamp(EmCandidates(secs, market, em_codes, full_refresh, day),
                       secs, "price_data_latest_date"),
          limit)

\* ---- scripts/update_polygon_daily_prices.py

\* get_securities_to_update of the authoritative vendor's price increment
\* (limit not applied)
PolygonPriceCandidates(secs, market, symbols, full_refresh, day) ==
    {i \in DOMAIN secs :
        /\ secs[i].is_active = ActiveTrue
        /\ Upper(secs[i].market) = Upper(market)
        /\ (symbols # {} => secs[i].symbol \in {Lower(x) : x \in symbols})
        /\ (~full_refresh =>
              \/ secs[i].price_data_latest_date = NULL
              \/ secs[i].price_data_latest_date < day - IncrementalCheckDays)}

\* the same selector, ordered and limited
GetPolygonPriceSecurities(secs, market, symbols, full_refresh, limit, day) ==
    Limit(OrderByStamp(PolygonPriceCandidates(secs, market, symbols,
                                              full_refresh, day),
                       secs, "price_data_latest_date"),
          limit)

Markets == {NULL, DefaultMarket, DefaultMarket + 1, DefaultMarket + 2}
Limits == 0..MaxSec

\* update_actions [symbols] [--market m] [--force] [--limit n]
ListActions(ids, market, force, limit) ==
    /\ last' = [op |-> "list_actions", names |-> ids, market |-> market,
                flag |-> force, limit |-> limit,
                result |-> GetActionSecurities(securities,
                                               {Ticker(i) : i \in ids}, market,
                                               force, limit, today)]
    /\ UNCHANGED <<securities, prices, dividends, splits, today, ops, vendor>>
    /\ UNCHANGED <<limiterVars, run>>

\* update_em_prices [em_codes] [--market m] [--full-refresh] [--limit n]
ListEm(em_codes, market, full_refresh, limit) ==
    /\ market # NULL
    /\ last' = [op |-> "list_em", names |-> em_codes, market |-> market,
                flag |-> full_refresh, limit |-> limit,
                result |-> GetEmSecurities(securities, market, em_codes,
                                           full_refresh, limit, today)]
    /\ UNCHANGED <<securities, prices, dividends, splits, today, ops, vendor>>
    /\ UNCHANGED <<limiterVars, run>>

\* update_polygon_prices [symbols] [--market m] [--full-refresh] [--limit n]
ListPolygonPrices(ids, market, full_refresh, limit) ==
    /\ market # NULL
    /\ last' = [op |-> "list_polygon_prices", names |-> ids,
                market |-> market, flag |-> full_refresh, limit |-> limit,
                result |-> GetPolygonPriceSecurities(securities, market,
                                                     {Ticker(i) : i \in ids},
                                                     full_refresh, limit,
                                                     today)]
    /\ UNCHANGED <<securities, prices, dividends, splits, today, ops, vendor>>
    /\ UNCHANGED <<limiterVars, run>>

SelectorNext ==
    \/ \E names \in NamedIds, fr \in BOOLEAN : SelectEm(names, fr)
    \/ \E names \in NamedIds, force \in BOOLEAN : SelectActions(names, force)
    \/ \E names \in NamedIds, market \in Markets, force \in BOOLEAN,
          limit \in Limits : ListActions(names, market, force, limit)
    \/ \E names \in NamedIds, market \in Markets, fr \in BOOLEAN,
          limit \in Limits : ListEm(names, market, fr, limit)
    \/ \E names \in NamedIds, market \in Markets, fr \in BOOLEAN,
          limit \in Limits : ListPolygonPrices(names, market, fr, limit)

SelectorSpec == SelectorInit /\ [][SelectorNext]_vars

\* ------------------------------------------------------------ orchestrators
\* run.phase: "idle" - nothing started; "running" - the work list is being
\* processed; "done" - main logged its statistics and returned; "fatal" -
\* initialization failed; "crashed" - an exception left the work loop and
\* main's outer handler logged it.
Commands == {"details", "actions", "prices", "grouped"}

\* the date range update_grouped_daily refreshes (hard-coded in its main)
GroupedStart == 1
GroupedEnd == 2

RECURSIVE DatesToProcess(_, _)
DatesToProcess(from, to) ==
    IF from > to THEN <<>> ELSE <<from>> \o DatesToProcess(from + 1, to)

InitOutcomes == {"ok", "no_keys", "no_db"}

\* does main get past its initialization?
InitFails(cmd, init) ==
    \/ init = "no_db"
    \/ (init = "no_keys" /\ cmd \in {"details", "actions", "grouped"})

\* the exit code of the process once main has returned
ExitCode(phase) == IF phase = "interrupted" THEN 1 ELSE 0

\* worker threads of a command (details and actions loop in the main thread)
WorkersOf(cmd) == IF cmd \in {"prices", "grouped"} THEN MaxWorkers ELSE 1

\* the work list main builds; market is the --market argument (NULL: --all)
WorkList(cmd, flag, market) ==
    CASE cmd = "details" ->
           OrderByStamp(DetailsCandidates(securities, {}, market), securities,
                        "info_last_updated_at")
      [] cmd = "actions" ->
           OrderByStamp(ActionCandidates(securities, {}, market, flag, today),
                        securities, "actions_last_updated_at")
      [] cmd = "prices" ->
           OrderByStamp(EmCandidates(securities, DefaultMarket, {}, flag, today),
                        securities, "price_data_latest_date")
      [] cmd = "grouped" -> DatesToProcess(GroupedStart, GroupedEnd)

\* main: initialization, candidate selection
Begin(cmd, flag, market, init) ==
    IF InitFails(cmd, init)
    THEN [run EXCEPT !.cmd = cmd, !.flag = flag, !.phase = "fatal",
                     !.queue = <<>>, !.results = <<>>, !.submitted = <<>>,
                     !.exit = ExitCode("fatal")]
    ELSE LET work == WorkList(cmd, flag, market) IN
         [run EXCEPT !.cmd = cmd, !.flag = flag,
                     !.phase = IF work = <<>> THEN "done" ELSE "running",
                     !.queue = work, !.results = <<>>, !.submitted = work,
                     !.exit = ExitCode("done")]

\* a command is started from the shell
RunStart(cmd, flag, init) ==
    /\ run.phase = "idle"
    /\ run.step = 0
    /\ run' = Begin(cmd, flag, NULL, init)
    /\ last' = Outside("run")
    /\ UNCHANGED <<securities, prices, dividends, splits, today, ops, vendor>>
    /\ UNCHANGED limiterVars

\* the next item of the work list is handed to a free worker
WorkerStart ==
    /\ run.phase = "running"
    /\ run.queue # <<>>
    /\ Cardinality(run.inflight) < WorkersOf(run.cmd)
    /\ run' = [run EXCEPT !.queue = Tail(@),
                          !.inflight = @ \cup {[step |-> run.step,
                                                id |-> Head(run.queue)]}]
    /\ last' = Outside("run")
    /\ UNCHANGED <<securities, prices, dividends, splits, today, ops, vendor>>
    /\ UNCHANGED limiterVars

\* what the task of item id does to the store, with the status main counts;
\* outcome "uncaught": the task raises outside its own try block (actions
\* and prices read an attribute of the detached security there), and the
\* loop of main counts a FATAL_ERROR
TaskOutcome(id, outcome) ==
    CASE run.cmd # "details" /\ outcome = "uncaught" ->
           [raised |-> FALSE, status |-> "FATAL_ERROR", secs |-> securities,
            prices |-> prices, dividends |-> dividends, splits |-> splits]
      [] run.cmd = "details" ->
           LET r == UpdateSecurityDetails(securities, id, run.flag, outcome,
                                          IntervalLow, today)
           IN [raised |-> r.raised, status |-> r.status, secs |-> r.secs,
               prices |-> prices, dividends |-> dividends, splits |-> splits]
      [] run.cmd = "actions" ->
           LET r == ProcessSecurityActions(securities, dividends, splits, id,
                                           outcome, today, vendor)
           IN [raised |-> FALSE, status |-> r.status, secs |-> r.secs,
               prices |-> prices, dividends |-> r.dividends,
               splits |-> r.splits]
      [] run.cmd = "prices" ->
           LET r == ProcessSecurityPrices(securities, prices, id, run.flag,
                                          outcome, today, vendor)
           IN [raised |-> FALSE, status |-> r.status, secs |-> r.secs,
               prices |-> r.prices, dividends |-> dividends,
               splits |-> splits]
      [] run.cmd = "grouped" ->
           LET r == ProcessDate(prices, securities, id, outcome, vendor)
           IN [raised |-> FALSE, status |-> r.status, secs |-> securities,
               prices |-> r.prices, dividends |-> dividends,
               splits |-> splits]

\* list_dividends / list_splits (limit=...): one HTTP request per page, the
\* first one included even when it fails or returns nothing
PageLimit == 2

Pages(n) == IF n = 0 THEN 1 ELSE (n + PageLimit - 1) \div PageLimit

\* acquire_key returns and HTTP requests to the rate-limited vendor made by
\* the task of item id
VendorCalls(id, outcome) ==
    CASE run.cmd # "details" /\ outcome = "uncaught" ->
           [acquires |-> 0, requests |-> 0]
      [] run.cmd = "details" ->
           \* its own RESTClient(POLYGON_API_KEY), no limiter
           IF UpdateSecurityDetails(securities, id, run.flag, outcome,
                                    IntervalLow, today).status = "SKIPPED"
           THEN [acquires |-> 0, requests |-> 0]
           ELSE [acquires |-> 0, requests |-> 1]
      [] run.cmd = "actions" ->
           \* get_dividends and get_splits: one _get_client each, then the
           \* paginator of that client
           [acquires |-> 2,
            requests |-> IF vendor.pg_down THEN 2
                         ELSE Pages(Len(vendor.divs)) + Pages(Len(vendor.splits))]
      [] run.cmd = "grouped" ->
           \* get_grouped_daily_data: one _get_client, one requests.get
           LET n == ProcessDate(prices, securities, id, outcome,
                                vendor).fetches
           IN [acquires |-> n, requests |-> n]
      [] OTHER -> [acquires |-> 0, requests |-> 0]

OutcomesOf(cmd) ==
    CASE cmd = "details" -> DetailsOutcomes
      [] cmd = "actions" -> {"none", "dividends", "uncaught"}
      [] cmd = "prices" -> {"none", "fetch", "uncaught"}
      [] OTHER -> {"none"}

\* results_counter[status] += 1, or results_counter["FATAL_ERROR"] += 1 in
\* the handler around it
TallyLosingFatal(results, id, status) ==
    IF status = "FATAL_ERROR" THEN results
    ELSE Append(results, [id |-> id, status |-> status])
Tally(results, id, status) == Append(results, [id |-> id, status |-> status])

\* a worker finishes its task; an exception that leaves the task ends the
\* work loop of details (main has no handler inside the loop)
WorkerFinish(id, outcome) ==
    /\ run.phase = "running"
    /\ [step |-> run.step, id |-> id] \in run.inflight
    /\ outcome \in OutcomesOf(run.cmd)
    /\ LET r == TaskOutcome(id, outcome) IN
         /\ securities' = r.secs
         /\ prices' = r.prices
         /\ dividends' = r.dividends
         /\ splits' = r.splits
         /\ run' = [run EXCEPT
                      !.inflight = @ \ {[step |-> run.step, id |-> id]},
                      !.results = Tally(@, id, r.status),
                      !.phase = IF r.raised THEN "crashed" ELSE @,
                      !.acquired = @ + VendorCalls(id, outcome).acquires,
                      !.requested = @ + VendorCalls(id, outcome).requests]
    /\ last' = Outside("run")
    /\ UNCHANGED <<today, ops, vendor>>
    /\ UNCHANGED limiterVars

\* the work list is drained: statistics are logged and main returns
RunFinish ==
    /\ run.phase = "running"
    /\ run.queue = <<>>
    /\ run.inflight = {}
    /\ run' = [run EXCEPT
                 !.phase = IF run.stop THEN "interrupted" ELSE "done",
                 !.exit = ExitCode(IF run.stop THEN "interrupted" ELSE "done")]
    /\ last' = Outside("run")
    /\ UNCHANGED <<securities, prices, dividends, splits, today, ops, vendor>>
    /\ UNCHANGED limiterVars

\* The only stop signal the program knows: the interrupt of the terminal,
\* raised as KeyboardInterrupt in the main thread.  Inside a thread-pool
\* command the main thread is then held by the executor's shutdown, which
\* waits for every submitted item; the worker threads are not told.
\* run.waiters remembers who was sleeping in acquire_key at that moment.
StopSignal ==
    /\ run.phase = "running"
    /\ ~run.stop
    /\ WorkersOf(run.cmd) > 1
    /\ run' = [run EXCEPT !.stop = TRUE,
                          !.waiters = {t \in Threads : pc[t] = "sleep"}]
    /\ last' = Outside("run")
    /\ UNCHANGED <<securities, prices, dividends, splits, today, ops, vendor>>
    /\ UNCHANGED limiterVars

\* update_grouped_daily with its workers calling acquire_key
CancelNext ==
    \/ RunStart("grouped", FALSE, "ok")
    \/ WorkerStart
    \/ \E d \in Days : WorkerFinish(d, "none")
    \/ RunFinish
    \/ StopSignal
    \/ LimiterNext

\* ---- main.py daily_run
Steps == 1..4

StepCommand(n) ==
    CASE n = 1 -> "details"
      [] n = 2 -> "actions"
      [] n = 3 -> "prices"
      [] n = 4 -> "grouped"

\* execute_script returns when the main it called has returned
ReturnedEarly(r) == r.phase \in {"running", "done", "fatal", "crashed"}
Returned(r) == r.phase \in {"done", "fatal", "crashed"}

AfterStep(n) == IF n = 4 THEN "finished" ELSE "next"

\* the --start-date / --end-date step 4 hands to update_grouped_daily, whose
\* main does not read its arguments
DailyGroupedArgs(day) == [start_date |-> day - 2, end_date |-> day - 1]

\* daily_run is started with a set of skip flags
DailyStart(skip) ==
    /\ run.phase = "idle"
    /\ run.step = 0
    /\ run' = [run EXCEPT !.cmd = "daily", !.phase = "next", !.step = 1,
                          !.skip = skip]
    /\ last' = Outside("run")
    /\ UNCHANGED <<securities, prices, dividends, splits, today, ops, vendor>>
    /\ UNCHANGED limiterVars

\* run_daily_update reaches a step: skipped, or its main is called
DailyStep(init) ==
    /\ run.phase = "next"
    /\ run.step \in Steps
    /\ run' = IF run.step \in run.skip
              THEN [run EXCEPT !.step = @ + 1, !.phase = AfterStep(run.step)]
              ELSE Begin(StepCommand(run.step), FALSE, DefaultMarket, init)
    /\ last' = Outside("run")
    /\ UNCHANGED <<securities, prices, dividends, splits, today, ops, vendor>>
    /\ UNCHANGED limiterVars

\* the main of a step returns to run_daily_update
DailyReturn ==
    /\ run.step \in Steps
    /\ Returned(run)
    /\ run' = [run EXCEPT !.step = @ + 1, !.phase = AfterStep(run.step)]
    /\ last' = Outside("run")
    /\ UNCHANGED <<securities, prices, dividends, splits, today, ops, vendor>>
    /\ UNCHANGED limiterVars

RunInit == TaskInit

AllOutcomes == DetailsOutcomes \cup {"none", "dividends", "fetch", "uncaught"}

RunNext ==
    \/ \E cmd \in Commands, flag \in BOOLEAN, init \in InitOutcomes :
          RunStart(cmd, flag, init)
    \/ WorkerStart
    \/ \E id \in SecIds \cup Days, outcome \in AllOutcomes :
          WorkerFinish(id, outcome)
    \/ RunFinish
    \/ \E skip \in SUBSET Steps : DailyStart(skip)
    \/ \E init \in InitOutcomes : DailyStep(init)
    \/ DailyReturn

RunSpec == RunInit /\ [][RunNext]_vars

CancelSpec == RunInit /\ [][CancelNext]_vars

LimiterInit == LimiterStart /\ StoreIdle /\ run = NoRun


LimiterSpec == LimiterInit /\ [][LimiterNext]_vars

\* Scheduling assumed for liveness: time advances, every runnable caller is
\* eventually run, and a caller that keeps finding the mutex free gets it.
LimiterFairness ==
    /\ WF_vars(Tick)
    /\ \A t \in Threads :
         /\ SF_vars(Enter(t))
         /\ WF_vars(Admit(t))
         /\ WF_vars(Wait(t))
         /\ WF_vars(Wake(t))

LimiterLiveInit == LimiterInit /\ nkeys = 1 /\ rate_limit = 1

LimiterLiveSpec == LimiterLiveInit /\ [][LimiterNext]_vars /\ LimiterFairness

\* ------------------------------------------------------------------ claims

\* C1: for every key, any window of per_seconds ticks (both ends included)
\* contains at most rate_limit admissions of that key: the admission that
\* lies rate_limit admissions back is always older than per_seconds.
C1_SlidingWindowBound ==
    \A k \in Keys :
        Len(recent[k]) = rate_limit + 1 => recent[k][1] > per_seconds

C1_Witness ==
    /\ \E k \in Keys : Len(recent[k]) = rate_limit + 1
    /\ \E t \in Threads : pc[t] = "sleep"
    /\ \E t \in Threads : pc[t] = "want"

BackToBackAtZero(n) ==
    /\ nkeys = 2
    /\ rate_limit = 2
    /\ Len(admLog) >= n
    /\ \A i \in 1..Min2(n, 4) : admLog[i].at = 0

FirstKeys(ks) ==
    \A i \in 1..4 : BackToBackAtZero(i) => admLog[i].key = ks[i]

FifthAfterWindow ==
    (BackToBackAtZero(5) /\ \A i \in 1..4 : admLog[i].at = 0)
        => (admLog[5].key = 1 /\ admLog[5].at > per_seconds)

\* C8 as stated: two keys, rate_limit 2, five acquires back-to-back at t=0
\* return k1, k2, k1, k2 and the fifth returns k1 after the window.
C8_Original == FirstKeys(<<1, 2, 1, 2>>) /\ FifthAfterWindow

\* C8 amended: two keys, rate_limit 2, five acquires back-to-back at t=0
\* return k1, k1, k2, k2 (the scan hands out the first available key); the
\* fifth returns k1, and only after k1's oldest admission left the window.
C8_FirstAvailableOrder == FirstKeys(<<1, 1, 2, 2>>) /\ FifthAfterWindow

C8_Witness ==
    /\ BackToBackAtZero(5)
    /\ admLog[5].key = 1
    /\ admLog[5].at = per_seconds + 1

\* C9: every caller sleeping in acquire_key eventually returns a key.
C9_NoStarvation ==
    \A t \in Threads : (pc[t] = "sleep") ~> (pc[t] = "idle")

\* C2 as stated: upsert_security_info on an existing row leaves every column
\* that the record does not carry at its prior value, except
\* info_last_updated_at.
C2_AbsentColumnsKept ==
    [][\A rec \in SecurityPayloads, draw \in IntervalDraws :
         (/\ SecUpsert(rec, draw)
          /\ "id" \in DOMAIN rec
          /\ rec.id \in DOMAIN securities
          /\ last'.ok)
         => \A c \in SecurityColumns \ (DOMAIN rec \cup {"info_last_updated_at"}) :
                securities'[rec.id][c] = securities[rec.id][c]]_vars

\* C3: upsert_dividends with a record whose (security_id, ex_dividend_date,
\* cash_amount) is already stored leaves exactly one row with that key, and
\* that row is the one stored before the call, field for field.
C3_DividendUpsertIdempotent ==
    [][\A id \in {1, MaxSec + 1}, batch \in BatchesOf(DividendInputs) :
         DivUpsert(id, batch)
         => \A i \in 1..Len(batch) : \A x \in dividends :
              KeyOf(x, DividendIndexElements)
                  = KeyOf(WithSecurityId(batch, id)[i], DividendIndexElements)
              => {y \in dividends' : KeyOf(y, DividendIndexElements)
                                      = KeyOf(x, DividendIndexElements)} = {x}
      ]_vars

C3_Witness ==
    /\ last.op = "upsert_dividends"
    /\ last.ok
    /\ last.dup
    /\ \E x \in dividends : \E i \in 1..Len(last.batch) :
         /\ KeyOf(x, DividendIndexElements)
              = KeyOf(WithSecurityId(last.batch, last.id)[i],
                      DividendIndexElements)
         /\ x.currency # last.batch[i].currency

OHLCV == {"open", "high", "low", "close", "volume"}

\* C4: after a successful upsert_daily_prices([p]) the row stored under
\* (p.security_id, p.date) carries p's open, high, low, close and volume,
\* whether the key was stored before the call or not.
C4_PriceRoundTrip ==
    (/\ last.op = "upsert_daily_prices"
     /\ last.ok
     /\ Len(last.batch) = 1)
    => LET p == last.batch[1] IN
       /\ PriceKey(p) \in DOMAIN prices
       /\ \A c \in OHLCV \cap DOMAIN p : prices[PriceKey(p)][c] = p[c]

C4_Witness ==
    /\ last.op = "upsert_daily_prices"
    /\ last.ok
    /\ Len(last.batch) = 1
    /\ last.existed
    /\ OHLCV \subseteq DOMAIN last.batch[1]
    /\ ops = 2

SuccessStatuses ==
    {"SUCCESS", "SUCCESS_NO_NEW_DATA", "SUCCESS_UP_TO_DATE"}

\* C5 as stated: a price-increment task that ends in a success status leaves
\* price_data_latest_date of every security greater than or equal to its
\* value before the task (a missing date counts as the lowest).
C5_FreshnessMonotone ==
    [][(/\ ops' = ops + 1
        /\ last'.op = "price_increment"
        /\ last'.status \in SuccessStatuses)
       => \A i \in SecIds :
            securities'[i].price_data_latest_date
                >= securities[i].price_data_latest_date]_vars

\* C6: an incremental price task on a security whose latest date is set and
\* not after today, for which the vendor has no row in [latest + 1, today],
\* inserts no daily_prices row, sets price_data_latest_date to today - 1 and
\* ends with SUCCESS_NO_NEW_DATA.
C6_EmptyIncrement ==
    [][\A s \in SecIds :
         (/\ PriceTask(s, FALSE, "none")
          /\ securities[s].price_data_latest_date # NULL
          /\ securities[s].price_data_latest_date + 1 <= today
          /\ \A d \in (securities[s].price_data_latest_date + 1)..today :
                d > vendor.em_horizon)
         => /\ prices' = prices
            /\ securities'[s].price_data_latest_date = today - 1
            /\ last'.status = "SUCCESS_NO_NEW_DATA"]_vars

C6_Witness ==
    /\ last.op = "price_increment"
    /\ ~last.flag
    /\ last.status = "SUCCESS_NO_NEW_DATA"
    /\ securities[last.id].price_data_latest_date = today - 1
    /\ securities[last.id].full_data_last_updated_at # NULL
    /\ securities[last.id].full_data_last_updated_at < today
    /\ <<last.id, FirstDay - 1>> \in DOMAIN prices

\* the grouped-daily payload entry that reprices security i, if any
Touching(i) ==
    {t \in vendor.pg_tickers :
        \E j \in DOMAIN securities :
            /\ j = i
            /\ Lower(securities[j].symbol) = Lower(t)}

\* C7: a grouped-daily reprice of date D gives every stored row of D whose
\* security the payload names the vendor's open, high, low, close, volume and
\* vwap and turnover = volume * vwap, and leaves the row's turnover_rate and
\* adj_factor as they were before the task.
C7_RepriceFrame ==
    [][\A d \in Days :
         (GroupedTask(d, "none") /\ ~vendor.pg_down)
         => \A i \in SecIds : \A t \in Touching(i) :
              <<i, d>> \in DOMAIN prices
              => LET old == prices[<<i, d>>]
                     new == prices'[<<i, d>>]
                     agg == Agg(t, vendor.pg_tag)
                 IN /\ new.open = agg.o
                    /\ new.high = agg.h
                    /\ new.low = agg.l
                    /\ new.close = agg.c
                    /\ new.volume = agg.v
                    /\ new.vwap = agg.vw
                    /\ new.turnover = agg.v * agg.vw
                    /\ new.turnover_rate = old.turnover_rate
                    /\ new.adj_factor = old.adj_factor]_vars

C7_Witness ==
    /\ last.op = "grouped_daily"
    /\ last.status = "SUCCESS"
    /\ \E i \in SecIds :
         /\ <<i, last.id>> \in DOMAIN prices
         /\ prices[<<i, last.id>>].open = Agg(Ticker(i), vendor.pg_tag).o
         /\ prices[<<i, last.id>>].turnover_rate
                = EmRecord(i, last.id, 1).turnover_rate
         /\ prices[<<i, last.id>>].adj_factor = AdjFactorDefault

\* C10: when a command (actions refresh, price increment, grouped-daily
\* reprice) that did not fail is run again with the same arguments and
\* nothing happening in between, the second run inserts or alters no
\* dividend, split or price row, and changes no security column other than
\* the freshness stamps.
C10_SecondRunWritesNothing ==
    [][(ops' = ops + 1 /\ last'.again)
       => /\ prices' = prices
          /\ dividends' = dividends
          /\ splits' = splits
          /\ \A i \in SecIds : \A c \in SecurityColumns \ StampFields :
                securities'[i][c] = securities[i][c]]_vars

C10_Witness ==
    /\ last.again
    /\ last.op = "grouped_daily"
    /\ last.status = "SUCCESS"
    /\ ops = 2

\* C11 as stated: among the active securities, the price selector (run
\* without --full-refresh and without names) elects for a full refresh
\* exactly those whose full_data_last_updated_at is missing or more than
\* full_refresh_interval days old.
C11_AutoFullRefreshElection ==
    (last.op = "select_em" /\ ~last.flag /\ last.names = {})
    => \A i \in SecIds :
         securities[i].is_active = ActiveTrue
         => ((i \in last.result /\ IsFullRun(securities[i], last.flag))
             <=> \/ securities[i].full_data_last_updated_at = NULL
                 \/ today > securities[i].full_data_last_updated_at
                              + securities[i].full_refresh_interval)

Named(i) == i \in last.names

\* C17 as stated: when securities are named, the candidates are exactly the
\* named securities that are active, whatever their freshness stamps.
C17_NamedBypassFreshness ==
    (last.op \in {"select_em", "select_actions"} /\ last.names # {})
    => last.result
         = {i \in SecIds : Named(i) /\ securities[i].is_active = ActiveTrue}

\* C17 amended: when securities are named, the candidates are exactly the
\* named securities that are active and either the flag (--force,
\* --full-refresh) is given or the freshness stamp is missing or stale:
\* actions_last_updated_at older than 90 days for the actions refresh,
\* price_data_latest_date earlier than today - 2 for the price increment.
C17_NamedStillFiltered ==
    (last.op \in {"select_em", "select_actions"} /\ last.names # {})
    => last.result
         = {i \in SecIds :
              /\ Named(i)
              /\ securities[i].is_active = ActiveTrue
              /\ \/ last.flag
                 \/ /\ last.op = "select_actions"
                    /\ \/ securities[i].actions_last_updated_at = NULL
                       \/ today - securities[i].actions_last_updated_at > 90
                 \/ /\ last.op = "select_em"
                    /\ \/ securities[i].price_data_latest_date = NULL
                       \/ today - securities[i].price_data_latest_date > 2}

C17_Witness ==
    /\ last.op = "select_actions"
    /\ last.names = {1, MaxSec + 1}
    /\ ~last.flag
    /\ securities[1].is_active = ActiveTrue
    /\ securities[1].actions_last_updated_at = today - 1
    /\ last.result = {}

KeyColumns == {"id", "symbol", "em_code"}

Selected ==
    {run.queue[i] : i \in 1..Len(run.queue)} \cup {w.id : w \in run.inflight}
Processed == {run.results[i].id : i \in 1..Len(run.results)}

\* C13 as stated: when a command has returned, every candidate it selected
\* has been processed, whatever happened to the tasks of the others: a
\* failing task is an error status of its own security only.
C13_FailureIsolation ==
    run.phase \in {"done", "crashed"} => Selected = {}

\* C14 as stated: a command that failed to initialize ends with a non-zero
\* exit code, and one that initialized ends with exit code 0.
C14_ExitCode ==
    /\ run.phase = "fatal" => run.exit # 0
    /\ run.phase \in {"done", "crashed"} => run.exit = 0

\* C16: daily_run runs details, actions, price increment, grouped-daily in
\* that order: the workers in flight all belong to the step daily_run is at,
\* never to a skipped step; daily_run moves from a step to the next one only,
\* and only when no worker is in flight and no item is waiting to start
\* (unless the step's main gave up); passing a skipped step starts no work
\* and changes no table.
C16_DailyOrder ==
    /\ [](\A w \in run.inflight :
             /\ w.step = run.step
             /\ w.step \notin run.skip
             /\ run.step \in Steps => run.cmd = StepCommand(run.step))
    /\ [][run'.step # run.step =>
             /\ run'.step = run.step + 1
             /\ run.inflight = {}
             /\ run.phase = "done" => run.queue = <<>>]_vars
    /\ [][(run.phase = "next" /\ run.step \in run.skip) =>
             /\ run'.queue = <<>> /\ run'.inflight = {}
             /\ UNCHANGED <<securities, prices, dividends, splits>>]_vars

\* C16 witness: the actions step was skipped, the details step has been left
\* and a worker of the price step is in flight.
C16_Witness ==
    /\ run.step = 3
    /\ run.skip = {2}
    /\ run.inflight # {}
    /\ run.cmd = "prices"

\* C15 as stated: once the stop signal is raised, a caller that was sleeping
\* in acquire_key is not admitted any more, and no work item that had not
\* started is started.
C15_Cancellation ==
    [][run.stop =>
         /\ \A t \in run.waiters : ~(pc[t] = "scan" /\ granted'[t] # 0)
         /\ run'.inflight \subseteq run.inflight]_vars

\* C18: an actions task that ends without an exception (any status but
\* ERROR) leaves actions_last_updated_at of its security equal to now, also
\* when it fetched no dividend and no split.
C18_ActionsAlwaysStamp ==
    [][(ops' = ops + 1 /\ last'.op = "actions_refresh"
                       /\ last'.status # "ERROR") =>
          securities'[last'.id].actions_last_updated_at = today]_vars

\* C18 witness: an actions task has ended with nothing fetched and the stamp
\* of its security is today.
C18_Witness ==
    /\ last.op = "actions_refresh"
    /\ last.status = "SUCCESS_NO_ACTIONS"
    /\ dividends = {} /\ splits = {}
    /\ securities[last.id].actions_last_updated_at = today

\* C19 as stated: an actions task that runs while the vendor is failing ends
\* with status ERROR and leaves actions_last_updated_at of its security as it
\* was, so that the security is still a candidate of the next run.
C19_VendorErrorNotStamped ==
    [][(ops' = ops + 1 /\ last'.op = "actions_refresh" /\ vendor.pg_down) =>
          /\ last'.status = "ERROR"
          /\ securities'[last'.id].actions_last_updated_at
                 = securities[last'.id].actions_last_updated_at
          /\ last'.id \in ActionCandidates(securities', {}, NULL, FALSE,
                                           today)]_vars

\* C20: update_security_timestamp with a field outside the four stamp fields
\* raises and changes nothing; with a stamp field it succeeds and every
\* column of every row keeps its value, except that field of the addressed
\* security; the other tables are untouched.
C20_StampAllowList ==
    [][(ops' = ops + 1 /\ last'.op = "update_security_timestamp") =>
          /\ UNCHANGED <<prices, dividends, splits>>
          /\ DOMAIN securities' = DOMAIN securities
          /\ IF last'.field \notin StampFields
             THEN ~last'.ok /\ securities' = securities
             ELSE /\ last'.ok
                  /\ \A i \in DOMAIN securities, c \in SecurityColumns :
                        (i # last'.id \/ c # last'.field) =>
                            securities'[i][c] = securities[i][c]]_vars

\* C20 witness: a stamp field of an existing security has just been set to
\* today, a value it did not have in the seed.
C20_Witness ==
    /\ last.op = "update_security_timestamp"
    /\ last.ok
    /\ last.id \in DOMAIN securities
    /\ last.field = "actions_last_updated_at"
    /\ securities[last.id].actions_last_updated_at = today
    /\ today # SeedSecurity(last.id).actions_last_updated_at

\* C21 as stated: at any time the rate-limited vendor has been sent at most
\* as many HTTP requests as acquire_key has returned keys, follow-up pages of
\* the dividend and split listings included.
C21_RequestsWithinAcquires ==
    run.requested <= run.acquired

MergeFields ==
    {"open", "high", "low", "close", "volume", "turnover", "vwap",
     "turnover_rate"}

\* C22: after a successful upsert_daily_prices, every record of the batch
\* whose (security_id, date) row existed has changed no field but fields it
\* carries among open, high, low, close, volume, turnover, vwap,
\* turnover_rate: adj_factor and the fields it does not carry have the value
\* they had before, and a field that is not kept has the record's value; a
\* batch of one record sets every such field the record carries.
C22_SelectiveMerge ==
    [][(ops' = ops + 1 /\ last'.op = "upsert_daily_prices" /\ last'.ok) =>
          \A i \in 1..Len(last'.batch) :
             LET rec == last'.batch[i] IN
             PriceKey(rec) \in DOMAIN prices =>
                \A c \in PriceColumns :
                   /\ c \notin MergeFields \cap DOMAIN rec
                        => prices'[PriceKey(rec)][c] = prices[PriceKey(rec)][c]
                   /\ c \in MergeFields \cap DOMAIN rec
                        => \/ prices'[PriceKey(rec)][c] = rec[c]
                           \/ /\ Len(last'.batch) > 1
                              /\ prices'[PriceKey(rec)][c]
                                   = prices[PriceKey(rec)][c]]_vars

\* C22 witness: a record carrying only open has been merged into a stored
\* row: open is the payload's, close is still the stored one.
C22_Witness ==
    /\ last.op = "upsert_daily_prices"
    /\ last.ok /\ last.existed
    /\ DOMAIN last.batch[1] = {"security_id", "date", "open"}
    /\ prices[PriceKey(last.batch[1])].open = last.batch[1].open
    /\ prices[PriceKey(last.batch[1])].close # NULL

\* C23 as stated: the fetch of the security info is empty only when the
\* vendor answered not-found and raises for every other failure, and the
\* is_active = false branch is taken only after a not-found answer.
C23_DeactivateOnlyOnNotFound ==
    last.op = "update_stock_info" =>
        /\ last.fetched = "empty" => last.outcome = "not_found"
        /\ last.outcome \in {"http_error", "error"} => last.fetched = "raised"
        /\ last.deactivate => last.outcome = "not_found"

\* C24 as stated: the records a details task sends to upsert_security_info,
\* after a successful fetch and after a not-found answer, carry the id of the
\* security being processed, and the store accepts them.
C24_DetailsCarriesId ==
    \A w \in run.inflight :
       run.cmd = "details" =>
          /\ \A p \in {DetailsUpdateData(securities[w.id], DetailsResponse),
                       DetailsNotFoundData(securities[w.id])} :
                "id" \in DOMAIN p /\ p.id = w.id
          /\ \A outcome \in {"ok", "not_found"} :
                UpdateSecurityDetails(securities, w.id, TRUE, outcome,
                                      IntervalLow, today).status
                    \in {"UPDATED", "NOT_FOUND"}

\* C25 as stated: a price task that fetched nothing in a full run (full
\* refresh requested, or no price_data_latest_date yet) writes neither
\* price_data_latest_date nor full_data_last_updated_at.
C25_EmptyFullRunWritesNoStamp ==
    [][(/\ ops' = ops + 1
        /\ last'.op = "price_increment"
        /\ last'.status = "SUCCESS_NO_NEW_DATA"
        /\ IsFullRun(securities[last'.id], last'.flag)) =>
          /\ securities'[last'.id].price_data_latest_date
                = securities[last'.id].price_data_latest_date
          /\ securities'[last'.id].full_data_last_updated_at
                = securities[last'.id].full_data_last_updated_at]_vars

\* C30: a price task that persisted new rows (status SUCCESS) leaves
\* price_data_latest_date at the latest date the vendor returned, and
\* full_data_last_updated_at at now when the run was a full run and at its
\* old value when it was an increment; an increment never changes
\* full_data_last_updated_at, whatever its status.
C30_StampsAfterPersist ==
    [][(ops' = ops + 1 /\ last'.op = "price_increment") =>
          LET s == last'.id
              full == IsFullRun(securities[s], last'.flag)
              df == {d \in 1..vendor.em_horizon :
                       /\ d <= today
                       /\ (full \/ d > securities[s].price_data_latest_date)}
          IN /\ last'.status = "SUCCESS" =>
                  /\ df # {}
                  /\ securities'[s].price_data_latest_date = SetMax(df)
                  /\ full => securities'[s].full_data_last_updated_at = today
             /\ ~full => securities'[s].full_data_last_updated_at
                             = securities[s].full_data_last_updated_at]_vars

\* C30 witness: an increment has persisted the newly published day for a
\* security that was fully synced on an earlier day: its full stamp is still
\* that earlier day.
C30_Witness ==
    /\ last.op = "price_increment"
    /\ last.status = "SUCCESS"
    /\ ~last.flag
    /\ securities[last.id].price_data_latest_date = vendor.em_horizon
    /\ securities[last.id].full_data_last_updated_at # NULL
    /\ securities[last.id].full_data_last_updated_at < today

\* C26 as stated: when one dividend record of a batch is rejected by the
\* database, the call still completes without raising and every record of
\* the batch that the table accepts is stored.
C26_BadRowConfined ==
    [][(/\ ops' = ops + 1
        /\ last'.op \in {"upsert_dividends", "upsert_dividends_native_sql"}) =>
          LET data == WithSecurityId(last'.batch, last'.id) IN
          /\ last'.ok
          /\ \A i \in 1..Len(data) :
                DividendRowValid(data[i], securities) =>
                   \E x \in dividends' :
                      KeyOf(x, DividendIndexElements)
                          = KeyOf(data[i], DividendIndexElements)]_vars

\* a record of the batch is rejected by the table
BatchRejected(call) ==
    CASE call.op = "upsert_dividends" ->
           \E i \in 1..Len(call.batch) :
              ~DividendRowValid(WithSecurityId(call.batch, call.id)[i],
                                securities)
      [] call.op = "upsert_splits" ->
           \E i \in 1..Len(call.batch) :
              ~SplitRowValid(WithSecurityId(call.batch, call.id)[i], securities)
      [] call.op = "upsert_daily_prices" ->
           \E i \in 1..Len(call.batch) :
              call.batch[i].security_id \notin DOMAIN securities
      [] call.op = "bulk_update_records" -> ~call.ok
      [] OTHER -> FALSE

\* C27: when upsert_daily_prices, upsert_dividends, upsert_splits or
\* bulk_update_records meets a record it cannot write, the call raises and
\* the tables are what they were before the call: no record of the batch is
\* stored.
C27_FailedBatchStoresNothing ==
    [][(ops' = ops + 1 /\ BatchRejected(last')) =>
          /\ ~last'.ok
          /\ UNCHANGED <<prices, dividends, splits, securities>>]_vars

\* C27 witness: a two-record dividend batch whose first record is acceptable
\* and whose second is not has raised, and the table holds nothing.
C27_Witness ==
    /\ last.op = "upsert_dividends"
    /\ ~last.ok
    /\ Len(last.batch) = 2
    /\ DividendRowValid(WithSecurityId(last.batch, last.id)[1], securities)
    /\ ~DividendRowValid(WithSecurityId(last.batch, last.id)[2], securities)
    /\ dividends = {}

Listed == {last.result[i] : i \in 1..Len(last.result)}

\* C28: the actions selector returns securities that are active, pass the
\* symbol filter (or, without symbols, the market filter, letter case
\* ignored) and, without
\* --force, have no actions stamp or one older than 90 days; it returns all
\* of them when no limit is given and the first --limit of them otherwise,
\* in ascending order of the stamp with missing stamps first, so that no
\* security left out is staler than one returned.
C28_ActionCandidates ==
    last.op = "list_actions" =>
       LET stamp(i) == securities[i].actions_last_updated_at
           expected ==
             {i \in DOMAIN securities :
                /\ securities[i].is_active = ActiveTrue
                /\ IF last.names # {} THEN securities[i].symbol \in last.names
                   ELSE \/ last.market = NULL
                        \/ Upper(securities[i].market) = Upper(last.market)
                /\ \/ last.flag
                   \/ stamp(i) = NULL
                   \/ stamp(i) < today - 90}
           n == Len(last.result)
       IN /\ Listed \subseteq expected
          /\ Cardinality(Listed) = n
          /\ n = IF last.limit > 0 /\ last.limit < Cardinality(expected)
                 THEN last.limit ELSE Cardinality(expected)
          /\ \A i, j \in 1..n :
                i < j => stamp(last.result[i]) <= stamp(last.result[j])
          /\ \A x \in expected \ Listed, y \in Listed : stamp(y) <= stamp(x)

\* C28 witness: with --force and --limit 1 two securities qualify, one never
\* refreshed and one refreshed yesterday: the never-refreshed one is returned.
C28_Witness ==
    /\ last.op = "list_actions"
    /\ last.flag
    /\ last.limit = 1
    /\ last.names = {}
    /\ securities[1].is_active = ActiveTrue
    /\ securities[1].actions_last_updated_at = today - 1
    /\ last.result = <<2>>

\* the freshness test of the price increment
PriceStale(i) ==
    \/ securities[i].price_data_latest_date = NULL
    \/ securities[i].price_data_latest_date < today - 2

\* C29 as stated: without --full-refresh, names or --limit, either price
\* selector returns exactly the active securities of the requested market
\* (letter case ignored) whose price_data_latest_date is missing or earlier
\* than today - 2; nothing else excludes a security.
C29_OnlyThreeConditions ==
    (/\ last.op \in {"list_em", "list_polygon_prices"}
     /\ ~last.flag /\ last.names = {} /\ last.limit = 0)
    => Listed = {i \in DOMAIN securities :
                   /\ securities[i].is_active = ActiveTrue
                   /\ Upper(securities[i].market) = Upper(last.market)
                   /\ PriceStale(i)}

\* C29 amended: without --full-refresh, names or --limit, a price selector
\* returns exactly the active securities of the requested market (letter
\* case ignored) whose price_data_latest_date is missing or earlier than
\* today - 2 and, for the em-code vendor's selector, whose em_code is set;
\* the authoritative vendor's selector has no such further condition.
C29_EmNeedsEmCode ==
    (/\ last.op \in {"list_em", "list_polygon_prices"}
     /\ ~last.flag /\ last.names = {} /\ last.limit = 0)
    => Listed = {i \in DOMAIN securities :
                   /\ securities[i].is_active = ActiveTrue
                   /\ Upper(securities[i].market) = Upper(last.market)
                   /\ PriceStale(i)
                   /\ (last.op = "list_em" => securities[i].em_code # NULL)}

\* C29 witness: the em-code selector has run for the market of an active,
\* never-priced security that has no em_code, and has not returned it.
C29_Witness ==
    /\ last.op = "list_em"
    /\ ~last.flag /\ last.names = {} /\ last.limit = 0
    /\ securities[2].is_active = ActiveTrue
    /\ securities[2].em_code = NULL
    /\ Upper(securities[2].market) = Upper(last.market)
    /\ PriceStale(2)
    /\ 2 \notin Listed

\* the dates of a grouped-daily run: waiting, in work or reported
RunDates ==
    {run.queue[i] : i \in 1..Len(run.queue)}
      \cup {w.id : w \in run.inflight}
      \cup {run.results[i].id : i \in 1..Len(run.results)}

\* C31: the grouped-daily reprice started as step 4 of daily_run works on
\* exactly the dates from the start date to the end date daily_run passed
\* to it, which are today - 2 and today - 1.
C31_DailyGroupedDates ==
    (run.step = 4 /\ run.cmd = "grouped" /\ run.phase \in {"running", "done"})
    => RunDates = DailyGroupedArgs(today).start_date
                    .. DailyGroupedArgs(today).end_date

\* the stored rows of date d
RowsOfDate(d) == {k \in DOMAIN prices : k[2] = d}

\* C32: when the grouped-daily task of a date without stored daily_prices
\* rows finishes, it reports SKIPPED_NO_EXISTING_DATA, no rate-limiter key
\* was acquired, no vendor request was made and no table has changed.
C32_EmptyDateSkipped ==
    [][(/\ run.cmd = "grouped"
        /\ run.phase = "running"
        /\ Len(run'.results) = Len(run.results) + 1
        /\ RowsOfDate(run'.results[Len(run'.results)].id) = {})
       => /\ run'.results[Len(run'.results)].status
               = "SKIPPED_NO_EXISTING_DATA"
          /\ run'.acquired = run.acquired
          /\ run'.requested = run.requested
          /\ prices' = prices
          /\ securities' = securities]_vars

\* C32 witness: one grouped-daily run has skipped a date without rows and
\* refreshed a date with rows, for which it acquired a key.
C32_Witness ==
    /\ run.cmd = "grouped"
    /\ \E i, j \in 1..Len(run.results) :
          /\ run.results[i].status = "SKIPPED_NO_EXISTING_DATA"
          /\ RowsOfDate(run.results[i].id) = {}
          /\ run.results[j].status = "SUCCESS"
    /\ run.acquired = 1

\* the securities the vendor's grouped-daily payload names
PayloadIds ==
    IF vendor.pg_down THEN {}
    ELSE {SymbolToId(securities, Lower(t)) : t \in vendor.pg_tickers} \ {NULL}

\* C33: a grouped-daily task for date D leaves the set of (security_id,
\* date) keys of daily_prices as it was, and leaves every row unchanged
\* that is of another date or of a security the payload does not name.
C33_RepriceCreatesNoRow ==
    [][(ops' = ops + 1 /\ last'.op = "grouped_daily")
       => /\ DOMAIN prices' = DOMAIN prices
          /\ \A k \in DOMAIN prices :
                (k[2] # last'.id \/ k[1] \notin PayloadIds)
                => prices'[k] = prices[k]]_vars

\* C33 witness: the task has refreshed date D from a payload that also
\* names an unknown symbol, while rows of another date are stored.
C33_Witness ==
    /\ last.op = "grouped_daily"
    /\ last.status = "SUCCESS"
    /\ \E t \in vendor.pg_tickers : SymbolToId(securities, Lower(t)) = NULL
    /\ \E k \in DOMAIN prices : k[2] # last.id
    /\ \E k \in DOMAIN prices : k[2] = last.id /\ k[1] \notin PayloadIds

\* a payload that names a stored security without a row for D, on a date
\* that has rows of other securities
C33_NoRowForDate ==
    /\ last.op = "grouped_daily"
    /\ last.status = "SUCCESS_NO_INTERSECTION"
    /\ PayloadIds # {}
    /\ RowsOfDate(last.id) # {}

\* a key can be handed out now: its history is not full, or its oldest
\* admission is older than the window
KeyFree == \E k \in Keys : \/ Len(history[k]) < rate_limit
                           \/ history[k][1] > per_seconds

\* the sleep of thread t ends no earlier than the window of some key's
\* oldest admission
SleepCoversWindow(t) ==
    \E k \in Keys : /\ history[k] # <<>>
                    /\ history[k][1] + sleep_left[t] > per_seconds

\* a step in which some caller is handed a key
Admission == \E u \in Threads : pc[u] = "scan" /\ pc'[u] = "idle"

\* C34: a caller that finds no key available leaves the mutex and sleeps
\* the least remaining window of any key plus epsilon; as long as no caller
\* is admitted, that sleep keeps reaching past the window of some key, so
\* that a key is available when the sleep ends, stays available, and the
\* caller's next pass hands it a key instead of sleeping again.
C34_OneSleepSuffices ==
    [][\A t \in Threads :
         /\ (pc[t] = "scan" /\ pc'[t] = "sleep")
            => /\ lock = t /\ lock' = 0
               /\ ~KeyFree
               /\ sleep_left'[t]
                    = SetMin({per_seconds - history[k][1] : k \in Keys})
                        + Epsilon
               /\ SleepCoversWindow(t)'
         /\ (pc[t] = "sleep" /\ pc'[t] = "sleep" /\ SleepCoversWindow(t)
               /\ ~Admission)
            => SleepCoversWindow(t)'
         /\ (pc[t] = "sleep" /\ pc'[t] # "sleep" /\ SleepCoversWindow(t))
            => (pc'[t] = "want" /\ KeyFree')
         /\ (pc[t] \in {"want", "scan"} /\ KeyFree /\ ~Admission)
            => (KeyFree' /\ pc'[t] \in {"want", "scan"})
         /\ (pc[t] = "scan" /\ KeyFree /\ pc'[t] # "scan")
            => (pc'[t] = "idle" /\ granted'[t] \in Keys)]_vars

\* C34 witness: every key was used up at time 0 and one more caller has
\* been handed a key at time per_seconds + epsilon, the end of the sleep it
\* computed at time 0.
C34_Witness ==
    /\ Len(admLog) = nkeys * rate_limit + 1
    /\ \A i \in 1..(nkeys * rate_limit) : admLog[i].at = 0
    /\ admLog[nkeys * rate_limit + 1].at = per_seconds + Epsilon
    /\ \E t \in Threads : pc[t] = "idle" /\ granted[t] # 0

\* the work items main has counted, by item
Counted(x) == Cardinality({i \in 1..Len(run.results) : run.results[i].id = x})

FetchedDividendKeys(s) ==
    IF vendor.pg_down THEN {}
    ELSE LET ds == WithSecurityId(ValidDividends(vendor.divs), s)
         IN {KeyOf(ds[i], DividendIndexElements) : i \in 1..Len(ds)}
FetchedSplitKeys(s) ==
    IF vendor.pg_down THEN {}
    ELSE LET ss == WithSecurityId(ValidSplits(vendor.splits), s)
         IN {KeyOf(ss[i], SplitIndexElements) : i \in 1..Len(ss)}
FetchedPriceKeys(s, flag) ==
    {<<s, d>> : d \in {x \in 1..vendor.em_horizon :
                         /\ x <= today
                         /\ \/ IsFullRun(securities[s], flag)
                            \/ x > securities[s].price_data_latest_date}}

\* C36: an actions or price-increment task that changes the freshness stamp
\* of its security (actions_last_updated_at, price_data_latest_date) has
\* not ended in ERROR and has left every row it fetched in the store; a task
\* that ends in ERROR, as it does when persisting raises, leaves the stamp
\* as it was, and the security is again a candidate of the same command.
C36_StampOnlyAfterPersist ==
    [][(ops' = ops + 1 /\ last'.op \in {"actions_refresh", "price_increment"})
       => LET s == last'.id
              actions == last'.op = "actions_refresh"
              stamp(secs) == IF actions THEN secs[s].actions_last_updated_at
                             ELSE secs[s].price_data_latest_date
              persisted ==
                IF actions
                THEN /\ FetchedDividendKeys(s)
                          \subseteq {KeyOf(r, DividendIndexElements) :
                                       r \in dividends'}
                     /\ FetchedSplitKeys(s)
                          \subseteq {KeyOf(r, SplitIndexElements) :
                                       r \in splits'}
                ELSE FetchedPriceKeys(s, last'.flag) \subseteq DOMAIN prices'
              candidate ==
                IF actions
                THEN s \in ActionCandidates(securities', {}, NULL, last'.flag,
                                            today)
                ELSE s \in EmCandidates(securities', DefaultMarket, {},
                                        last'.flag, today)
          IN /\ stamp(securities') # stamp(securities)
                  => (last'.status # "ERROR" /\ persisted)
             /\ ~persisted => last'.status = "ERROR"
             /\ last'.status = "ERROR"
                  => (stamp(securities') = stamp(securities) /\ candidate)]_vars

\* C36 witness: an actions task stored the dividends, failed on the splits
\* and ended in ERROR; its security was never stamped.
C36_Witness ==
    /\ last.op = "actions_refresh"
    /\ last.status = "ERROR"
    /\ dividends # {}
    /\ FetchedSplitKeys(last.id) # {}
    /\ splits = {}
    /\ securities[last.id].actions_last_updated_at = NULL

\* the clock readings of the admissions of key k, oldest first, as far as
\* the log holds them
AdmissionsOf(k) == SelectSeq(admLog, LAMBDA a : a.key = k)

\* the last n entries of a sequence
LastOf(q, n) == SubSeq(q, Len(q) - n + 1, Len(q))

\* C37: every key's history holds at most rate_limit entries, oldest first
\* (ages never increase along it), and they are the most recent
\* min(rate_limit, n) admissions of that key; a caller reads the histories
\* only while it holds the mutex, and a history gets a new entry only in a
\* step of the caller that holds the mutex.
C37_HistoryUnderMutex ==
    /\ [](\A k \in Keys :
            /\ Len(history[k]) <= rate_limit
            /\ \A i \in 1..(Len(history[k]) - 1) :
                  history[k][i] >= history[k][i + 1]
            /\ history[k]
                 = LastOf(recent[k], Min2(rate_limit, Len(recent[k])))
            /\ (Len(admLog) < MaxLog /\ clock < ClockCap)
                 => LET adm == AdmissionsOf(k)
                        n == Min2(rate_limit, Len(adm))
                    IN history[k]
                         = [i \in 1..n |-> clock - LastOf(adm, n)[i].at])
    /\ [](\A t \in Threads : pc[t] = "scan" <=> lock = t)
    /\ [][\A k \in Keys :
             history'[k] # history[k]
             => \/ (lock = 0 /\ history'[k] = Older(history[k]))
                \/ /\ lock \in Threads
                   /\ pc[lock] = "scan"
                   /\ pc'[lock] = "idle"
                   /\ granted'[lock] = k
                   /\ history'[k] = LastOf(Append(history[k], 0),
                                           Min2(rate_limit,
                                                Len(history[k]) + 1))]_vars

\* C37 witness: a key has been handed out more often than rate_limit, so
\* its history has dropped its oldest admission, and a caller is reading the
\* histories under the mutex.
C37_Witness ==
    /\ \E k \in Keys : /\ Len(recent[k]) = rate_limit + 1
                        /\ Len(history[k]) = rate_limit
    /\ \E t \in Threads : pc[t] = "scan" /\ lock = t

\* C38: a successful upsert_daily_prices overwrites, in every existing row
\* of the batch, the columns of open, high, low, close, volume, turnover,
\* vwap, turnover_rate that the first record carries, with the values of the
\* row's own record, and overwrites no column that the first record lacks,
\* also when the row's own record carries it.
C38_FirstRecordDecides ==
    [][(ops' = ops + 1 /\ last'.op = "upsert_daily_prices" /\ last'.ok) =>
          \A i \in 1..Len(last'.batch) :
             LET rec == last'.batch[i]
                 first == last'.batch[1]
             IN PriceKey(rec) \in DOMAIN prices =>
                  \A c \in PriceColumns :
                     prices'[PriceKey(rec)][c] =
                        IF c \in MergeFields \cap DOMAIN first THEN rec[c]
                        ELSE prices[PriceKey(rec)][c]]_vars

\* C38 witness: a batch whose first record carries only open and whose
\* second record carries every field has been upserted over an existing row
\* of the second record: that row has the record's open and not its close.
C38_Witness ==
    /\ last.op = "upsert_daily_prices"
    /\ last.ok
    /\ Len(last.batch) = 2
    /\ DOMAIN last.batch[1] = {"security_id", "date", "open"}
    /\ "close" \in DOMAIN last.batch[2]
    /\ prices[PriceKey(last.batch[2])].open = last.batch[2].open
    /\ prices[PriceKey(last.batch[2])].close # last.batch[2].close
    /\ prices[PriceKey(last.batch[2])].close # NULL

====
